---- MODULE Spec2Model ----
(***************************************************************************)
(* A model of the uiua driver's watcher (src/src/main.rs) and of the       *)
(* system-op dispatcher with its native backend (src/src/io.rs).           *)
(*                                                                         *)
(* Spec   : the `watch` loop, its `run` closure, the ctrl-C handler thread *)
(*          and the spawned child processes.                               *)
(* SpecIo : IoOp::run against a value stack and the StdIo backend,         *)
(*          including the re-entrant import of files.                      *)
(***************************************************************************)
EXTENDS Integers, Sequences, FiniteSets, TLC

(***************************************************************************)
(* Bounds of the watcher model.                                            *)
(***************************************************************************)
\* the number of runs the watcher starts before no further change arrives
MaxRuns == 2
\* the capacity of the change-event channel between two polls
MaxEvents == 2

(***************************************************************************)
(* Program constants.                                                      *)
(***************************************************************************)
\* const TRIES: u8 = 10
TRIES == 10

\* the .ua files whose modification the notify watcher reports
UaPaths == {"main.ua", "lib.ua"}

VARIABLES
  \* ---- watcher ----
  pc,           \* position of the main thread inside watch()
  ret,          \* call site the run closure returns to: "init" | "loop"
  runPath,      \* the `path` argument of the current run closure call
  WATCH_CHILD,  \* the slot: 0 for None, else the index of the child held
  children,     \* every child spawned so far: its command line and status
  runs,         \* number of calls of the run closure so far
  lock,         \* holder of the WATCH_CHILD mutex: "free" | "main" | "handler"
  hpc,          \* position of the ctrl-C handler thread
  proc,         \* "running" | "exited"
  exitStatus,   \* status the process exited with (-1 while running)
  exitCause,    \* "none" | "sigint" | "watch_err"
  i,            \* the loop variable of `for i in 0..TRIES` (0 outside the loop)
  sleepMs,      \* milliseconds of the sleep the retry loop is in (0 if none)
  reported,     \* the latest report printed: an error, a failure, an interrupt
  events,       \* paths of the pending Modify events of .ua files
  elapsed,      \* last_time.elapsed(): "zero" just after last_time was set,
                \* then "short" (at most 100 ms) or "long" (more than 100 ms)
  format,       \* (Some(config), true) = (&config, format)
  stdin_file,   \* whether --stdin-file was supplied
  initial_path, \* "" for None, else the working file
  sigKilled     \* the latest handled SIGINT killed a child and no run began since

wvars == <<pc, ret, runPath, WATCH_CHILD, children, runs, lock, hpc, proc,
           exitStatus, exitCause, i, sleepMs, reported,
           events, elapsed, format, stdin_file, initial_path, sigKilled>>

VARIABLES
  \* ---- system ops ----
  frames,       \* frames[1] is the running program, frames[k+1] the file
                \* that frames[k] is importing: [name, prog, ip, stack]
  imports,      \* StdIo::imports: path string -> cached stack
  files,        \* the file system: file name -> bytes
  printed,      \* number of print_str calls so far
  loads,        \* path string -> number of times load_file + run began
  edits,        \* number of file changes made from outside
  show_image,   \* whether the backend overrides IoBackend::show_image
                \* (StdIo does not: the trait's default returns Err)
  last          \* the latest completed IoOp::run: op, result, stacks

iovars == <<frames, imports, files, printed, loads, edits, show_image, last>>

VARIABLES
  \* ---- command line ----
  dir,          \* the project directory: entry name -> who wrote its contents
  app,          \* the command line as App::try_parse sees it: [cmd, path]
  cpc,          \* position of main: "off" | "start" | "format" | "execute"
                \* | "watching" | "done"
  steps,        \* what the subcommand did to its file so far, in order
  cli_out,      \* what the subcommand reported
  target,       \* the file the subcommand worked on, "" if none
  exit_code,    \* exit status of the process, -1 while it runs
  ncmd,         \* number of command lines run so far
  repl          \* App::Repl: [stdout, rt, loaded, n, code, result, reported]
                \* rt is the runtime the closure is called with, loaded the
                \* codes passed to its load_str, n the lines read so far

clivars == <<dir, app, cpc, steps, cli_out, target, exit_code, ncmd, repl>>

VARIABLES
  \* ---- names of system ops ----
  named         \* the latest calls of IoOp::name and IoOp::from_name:
                \* [op, s, called, res, n], res is what from_name returned
                \* once it was called

nvars == <<named>>

vars == <<wvars, iovars, clivars, nvars>>

\* the children that are running processes
Alive == {c \in 1..Len(children) : children[c].status = "alive"}

\* Child::kill on child c
Kill(chs, c) ==
  IF chs[c].status = "alive" THEN [chs EXCEPT ![c].status = "killed"] ELSE chs

\* a retry delay that starts at 0 ms instead of 10 ms
SleepMsFromZero(n) == n * 10

\* the sleep between two format attempts: (i as u64 + 1) * 10 ms
SleepMs(n) == (n + 1) * 10

\* last_time.elapsed() after a sleep of at least 10 ms: the sleep may last
\* any longer, and once above 100 ms the elapsed time stays above
AfterSleep(e) == IF e = "long" THEN {"long"} ELSE {"short", "long"}

(***************************************************************************)
(* Bounds of the system-op model.                                          *)
(***************************************************************************)
\* instructions the running program executes when it uses every system op
MaxOps == 3
\* instructions the running program executes when it only imports
MaxImportOps == 4
\* nesting depth of imports in progress (frames, the running program included)
MaxDepth == 3
\* file changes made from outside while the program runs
MaxEdits == 1

(***************************************************************************)
(* Values: a type, a shape and a flat element buffer.                      *)
(***************************************************************************)
Front(q) == SubSeq(q, 1, Len(q) - 1)
Top(q) == q[Len(q)]

Str(d) == [ty |-> "char", shape |-> <<Len(d)>>, data |-> d]
Num(n) == [ty |-> "num", shape |-> << >>, data |-> <<n>>]
Bytes(d) == [ty |-> "byte", shape |-> <<Len(d)>>, data |-> d]
Bool(b) == [ty |-> "byte", shape |-> << >>, data |-> <<IF b THEN 1 ELSE 0>>]
\* a value that is not an array
Func == [ty |-> "func", shape |-> << >>, data |-> << >>]

is_array(v) == v.ty # "func"
is_chars(v) == v.ty = "char"
is_numbers(v) == v.ty = "num"
is_bytes(v) == v.ty = "byte"
rank(v) == Len(v.shape)

\* a check of the path operand that lets every array through
NotStringAnyArray(v) == ~is_array(v)

\* the check `!x.is_array() || !x.array().is_chars()` of every path operand
NotString(v) == ~is_array(v) \/ ~is_chars(v)

\* path strings, as character codes
PathA == <<97>>
PathDotA == <<46, 47, 97>>
PathB == <<98>>
PathDot == <<46>>

\* the file a path string names: "./x" names the file "x"
Canon(d) ==
  IF Len(d) >= 2 /\ d[1] = 46 /\ d[2] = 47 THEN SubSeq(d, 3, Len(d)) ELSE d

IsDir(d) == Canon(d) = PathDot

(***************************************************************************)
(* The io_op! table and the accessors the macro generates.                 *)
(***************************************************************************)
\* (args, outputs if given, variant, name)
io_op == <<
  <<1, <<0>>, "Show", "show">>,
  <<1, <<0>>, "Print", "print">>,
  <<1, <<0>>, "Println", "println">>,
  <<0, << >>, "ScanLn", "scanln">>,
  <<0, << >>, "Args", "args">>,
  <<1, << >>, "Var", "var">>,
  <<0, << >>, "Rand", "rand">>,
  <<1, << >>, "FReadStr", "freadstr">>,
  <<1, << >>, "FWriteStr", "fwritestr">>,
  <<1, << >>, "FReadBytes", "freadbytes">>,
  <<1, << >>, "FWriteBytes", "fwritebytes">>,
  <<1, << >>, "FLines", "flines">>,
  <<1, << >>, "FExists", "fexists">>,
  <<1, << >>, "FListDir", "flistdir">>,
  <<1, << >>, "FIsFile", "fisfile">>,
  <<1, << >>, "Import", "import">>,
  <<0, << >>, "Now", "now">>,
  <<1, << >>, "ImRead", "imread">>,
  <<1, << >>, "ImWrite", "imwrite">>,
  <<1, <<0>>, "ImShow", "imshow">> >>

IoOp == {io_op[k][3] : k \in DOMAIN io_op}

Entry(op) == io_op[CHOOSE k \in DOMAIN io_op : io_op[k][3] = op]

\* IoOp::args
IoOp_args(op) == Entry(op)[1]

\* IoOp::name: the match on the variant
IoOp_name(op) == Entry(op)[4]

\* a from_name that matches the identifier of the variant
IoOp_from_name_ident(s) ==
  LET K == {k \in DOMAIN io_op : io_op[k][3] = s} IN
  IF K = {} THEN << >>
  ELSE <<io_op[CHOOSE k \in K : \A j \in K : k <= j][3]>>

\* IoOp::from_name: the first arm of the match whose literal is s, Some(op)
\* is <<op>>; the arm `_` gives None, << >>
IoOp_from_name(s) ==
  LET K == {k \in DOMAIN io_op : io_op[k][4] = s} IN
  IF K = {} THEN << >>
  ELSE <<io_op[CHOOSE k \in K : \A j \in K : k <= j][3]>>

\* IoOp::outputs: Some(n) is <<n>>, None is << >>
IoOp_outputs(op) ==
  IF Entry(op)[2] # << >> THEN <<Entry(op)[2][1]>> ELSE <<1>>

(***************************************************************************)
(* The file system behind StdIo.                                           *)
(***************************************************************************)
FileExists(fs, d) == IsDir(d) \/ Canon(d) \in DOMAIN fs

\* fs::read: Ok(bytes) is <<bytes>>, Err is << >>
ReadFile(fs, d) ==
  IF Canon(d) \in DOMAIN fs THEN <<fs[Canon(d)]>> ELSE << >>

\* fs::write fails on the empty path and on a directory
CanWrite(d) == d # << >> /\ ~IsDir(d)

WriteFile(fs, d, bytes) ==
  [n \in DOMAIN fs \cup {Canon(d)} |-> IF n = Canon(d) THEN bytes ELSE fs[n]]

\* String::from_utf8 succeeds on these buffers exactly when they are ASCII
Utf8Ok(bytes) == \A k \in DOMAIN bytes : bytes[k] >= 0 /\ bytes[k] < 128

\* f64 as u8: truncation toward zero, saturating
AsU8(n) == IF n < 0 THEN 0 ELSE IF n > 255 THEN 255 ELSE n

(***************************************************************************)
(* Images.                                                                 *)
(***************************************************************************)
ImageMagic == 0 - 2

RECURSIVE AfterLastDot(_)
\* path.split('.').last()
AfterLastDot(d) ==
  IF \E k \in DOMAIN d : d[k] = 46
    THEN AfterLastDot(SubSeq(d, (CHOOSE k \in DOMAIN d : d[k] = 46) + 1, Len(d)))
    ELSE d

\* the ImageOutputFormat chosen from the extension
OutputFormat(ext) ==
  CASE ext = <<106, 112, 103>> -> "Jpeg"
    [] ext = <<106, 112, 101, 103>> -> "Jpeg"
    [] ext = <<112, 110, 103>> -> "Png"
    [] ext = <<98, 109, 112>> -> "Bmp"
    [] ext = <<103, 105, 102>> -> "Gif"
    [] ext = <<105, 99, 111>> -> "Ico"
    [] ext = <<116, 103, 97>> -> "Tga"
    [] ext = <<116, 105, 102, 102>> -> "Tiff"
    [] OTHER -> "Png"

FormatCode(f) ==
  CASE f = "Jpeg" -> 1 [] f = "Png" -> 2 [] f = "Bmp" -> 3 [] f = "Gif" -> 4
    [] f = "Ico" -> 5 [] f = "Tga" -> 6 [] f = "Tiff" -> 7

\* a value_to_image that takes any number of channels
value_to_image_any_px_size(v) ==
  IF ~is_array(v) \/ rank(v) # 3 THEN << >>
  ELSE IF ~(is_numbers(v) \/ is_bytes(v)) THEN << >>
  ELSE <<[width |-> v.shape[1], height |-> v.shape[2], px_size |-> v.shape[3],
          bytes |-> v.data]>>

\* value_to_image: Ok([width, height, px_size, bytes]) is a 1-tuple, Err << >>
value_to_image(v) ==
  IF ~is_array(v) \/ rank(v) # 3 THEN << >>
  ELSE IF ~(is_numbers(v) \/ is_bytes(v)) THEN << >>
  ELSE IF v.shape[3] \notin {1, 3, 4} THEN << >>
  ELSE <<[width |-> v.shape[1], height |-> v.shape[2], px_size |-> v.shape[3],
          bytes |-> IF is_numbers(v)
                      THEN [k \in DOMAIN v.data |-> AsU8(v.data[k] * 255)]
                      ELSE v.data]>>

\* value_to_image_bytes: the encoded file
value_to_image_bytes(v, f) ==
  IF value_to_image(v) = << >> THEN << >>
  ELSE LET im == value_to_image(v)[1] IN
       <<(<<ImageMagic, FormatCode(f), im.width, im.height, im.px_size>>
          \o im.bytes)>>

IsImageFile(bytes) == Len(bytes) >= 5 /\ bytes[1] = ImageMagic

RECURSIVE ToRgba(_, _)
\* DynamicImage::into_rgba8 on a buffer of px_size channels per pixel
ToRgba(c, px) ==
  IF Len(px) < c THEN << >>
  ELSE (CASE c = 1 -> <<px[1], px[1], px[1], 255>>
          [] c = 3 -> <<px[1], px[2], px[3], 255>>
          [] c = 4 -> <<px[1], px[2], px[3], px[4]>>)
       \o ToRgba(c, SubSeq(px, c + 1, Len(px)))

\* image::load_from_memory(..).into_rgba8() as the array [height, width, 4]
DecodeImage(bytes) ==
  [ty |-> "byte", shape |-> <<bytes[4], bytes[3], 4>>,
   data |-> ToRgba(bytes[5], SubSeq(bytes, 6, Len(bytes)))]

(***************************************************************************)
(* IoOp::run, one operator per arm of the match.  Each yields the set of   *)
(* possible results [ok, stack, files, printed] of running the op on the   *)
(* stack st with the file system fs after pr calls of print_str, and the   *)
(* methods of the backend env.vm.io it called, in order.                   *)
(***************************************************************************)
Res(ok, st, fs, pr) ==
  [ok |-> ok, stack |-> st, files |-> fs, printed |-> pr, calls |-> << >>]

\* the results R of the rest of an arm that first calls env.vm.io.<method>
Called(method, R) == {[r EXCEPT !.calls = <<method>> \o @] : r \in R}

\* lines read from stdin; the empty string also stands for EOF
ScanLines == {Str(<< >>), Str(PathA)}

\* env::args() and env::var(name)
ArgsValue == [ty |-> "char", shape |-> <<1, 1>>, data |-> PathA]
VarValue(key) == IF key = PathA THEN Str(PathB) ELSE Str(<< >>)

\* str::lines as an array: one row per line, a trailing empty line dropped
NumLines(text) ==
  Cardinality({k \in DOMAIN text : text[k] = 10})
    + (IF text # << >> /\ text[Len(text)] # 10 THEN 1 ELSE 0)
LinesValue(text) ==
  [ty |-> "char", shape |-> <<NumLines(text)>>,
   data |-> SelectSeq(text, LAMBDA ch : ch # 10)]

\* the entries of the one directory "."
ListValue(fs) ==
  [ty |-> "char", shape |-> <<Cardinality(DOMAIN fs)>>, data |-> << >>]

RunShow(st, fs, pr) ==
  IF st = << >> THEN {Res(FALSE, st, fs, pr)}
  ELSE Called("print_str", Called("print_str",
         {Res(TRUE, Front(st), fs, pr + 2)}))

RunPrint(st, fs, pr) ==
  IF st = << >> THEN {Res(FALSE, st, fs, pr)}
  ELSE Called("print_str", {Res(TRUE, Front(st), fs, pr + 1)})

RunPrintln(st, fs, pr) ==
  IF st = << >> THEN {Res(FALSE, st, fs, pr)}
  ELSE Called("print_str", Called("print_str",
         {Res(TRUE, Front(st), fs, pr + 2)}))

RunScanLn(st, fs, pr) ==
  Called("scan_line", {Res(TRUE, Append(st, l), fs, pr) : l \in ScanLines})

RunArgs(st, fs, pr) ==
  Called("args", {Res(TRUE, Append(st, ArgsValue), fs, pr)})

RunVar(st, fs, pr) ==
  IF st = << >> THEN {Res(FALSE, st, fs, pr)}
  ELSE IF NotString(Top(st)) THEN {Res(FALSE, Front(st), fs, pr)}
  ELSE Called("var",
         {Res(TRUE, Append(Front(st), VarValue(Top(st).data)), fs, pr)})

RunRand(st, fs, pr) == Called("rand", {Res(TRUE, Append(st, Num(0)), fs, pr)})

RunNow(st, fs, pr) == {Res(TRUE, Append(st, Num(0)), fs, pr)}

RunFReadStr(st, fs, pr) ==
  IF st = << >> THEN {Res(FALSE, st, fs, pr)}
  ELSE IF NotString(Top(st)) THEN {Res(FALSE, Front(st), fs, pr)}
  ELSE LET read == ReadFile(fs, Top(st).data) IN
       Called("read_file",
         IF read = << >> \/ ~Utf8Ok(read[1])
           THEN {Res(FALSE, Front(st), fs, pr)}
           ELSE {Res(TRUE, Append(Front(st), Str(read[1])), fs, pr)})

\* a variant of FWriteStr that pops the path only, as the table declares
RunFWriteStrOnePop(st, fs, pr) ==
  IF st = << >> THEN {Res(FALSE, st, fs, pr)}
  ELSE IF NotString(Top(st)) THEN {Res(FALSE, Front(st), fs, pr)}
  ELSE Called("write_file",
         IF ~CanWrite(Top(st).data) THEN {Res(FALSE, Front(st), fs, pr)}
         ELSE {Res(TRUE, Front(st), WriteFile(fs, Top(st).data, << >>), pr)})

RunFWriteStr(st, fs, pr) ==
  IF st = << >> THEN {Res(FALSE, st, fs, pr)}
  ELSE IF Len(st) < 2 THEN {Res(FALSE, Front(st), fs, pr)}
  ELSE LET path == Top(st)
           contents == Top(Front(st))
           rest == Front(Front(st)) IN
       IF NotString(path) THEN {Res(FALSE, rest, fs, pr)}
       ELSE IF ~is_array(contents) \/ ~is_chars(contents)
              THEN {Res(FALSE, rest, fs, pr)}
       ELSE Called("write_file",
              IF ~CanWrite(path.data) THEN {Res(FALSE, rest, fs, pr)}
              ELSE {Res(TRUE, rest, WriteFile(fs, path.data, contents.data),
                        pr)})

RunFReadBytes(st, fs, pr) ==
  IF st = << >> THEN {Res(FALSE, st, fs, pr)}
  ELSE IF NotString(Top(st)) THEN {Res(FALSE, Front(st), fs, pr)}
  ELSE LET read == ReadFile(fs, Top(st).data) IN
       Called("read_file",
         IF read = << >> THEN {Res(FALSE, Front(st), fs, pr)}
         ELSE {Res(TRUE, Append(Front(st), Bytes(read[1])), fs, pr)})

\* a variant of FWriteBytes that also writes a character array
RunFWriteBytesAnyArray(st, fs, pr) ==
  IF st = << >> THEN {Res(FALSE, st, fs, pr)}
  ELSE IF Len(st) < 2 THEN {Res(FALSE, Front(st), fs, pr)}
  ELSE LET path == Top(st)
           contents == Top(Front(st))
           rest == Front(Front(st)) IN
       IF NotString(path) THEN {Res(FALSE, rest, fs, pr)}
       ELSE IF ~is_array(contents) THEN {Res(FALSE, rest, fs, pr)}
       ELSE Called("write_file",
              IF ~CanWrite(path.data) THEN {Res(FALSE, rest, fs, pr)}
              ELSE {Res(TRUE, rest, WriteFile(fs, path.data, contents.data),
                        pr)})

RunFWriteBytes(st, fs, pr) ==
  IF st = << >> THEN {Res(FALSE, st, fs, pr)}
  ELSE IF Len(st) < 2 THEN {Res(FALSE, Front(st), fs, pr)}
  ELSE LET path == Top(st)
           contents == Top(Front(st))
           rest == Front(Front(st)) IN
       IF NotString(path) THEN {Res(FALSE, rest, fs, pr)}
       ELSE IF ~is_array(contents) THEN {Res(FALSE, rest, fs, pr)}
       ELSE IF ~(is_numbers(contents) \/ is_bytes(contents))
              THEN {Res(FALSE, rest, fs, pr)}
       ELSE Called("write_file",
              IF ~CanWrite(path.data) THEN {Res(FALSE, rest, fs, pr)}
              ELSE {Res(TRUE, rest,
                        WriteFile(fs, path.data,
                                  [k \in DOMAIN contents.data |->
                                     IF is_numbers(contents)
                                       THEN AsU8(contents.data[k])
                                       ELSE contents.data[k]]), pr)})

RunFLines(st, fs, pr) ==
  IF st = << >> THEN {Res(FALSE, st, fs, pr)}
  ELSE IF NotString(Top(st)) THEN {Res(FALSE, Front(st), fs, pr)}
  ELSE LET read == ReadFile(fs, Top(st).data) IN
       Called("read_file",
         IF read = << >> \/ ~Utf8Ok(read[1])
           THEN {Res(FALSE, Front(st), fs, pr)}
           ELSE {Res(TRUE, Append(Front(st), LinesValue(read[1])), fs, pr)})

RunFExists(st, fs, pr) ==
  IF st = << >> THEN {Res(FALSE, st, fs, pr)}
  ELSE IF NotString(Top(st)) THEN {Res(FALSE, Front(st), fs, pr)}
  ELSE Called("file_exists",
         {Res(TRUE, Append(Front(st), Bool(FileExists(fs, Top(st).data))), fs,
              pr)})

RunFListDir(st, fs, pr) ==
  IF st = << >> THEN {Res(FALSE, st, fs, pr)}
  ELSE IF NotString(Top(st)) THEN {Res(FALSE, Front(st), fs, pr)}
  ELSE Called("list_dir",
         IF ~IsDir(Top(st).data) THEN {Res(FALSE, Front(st), fs, pr)}
         ELSE {Res(TRUE, Append(Front(st), ListValue(fs)), fs, pr)})

RunFIsFile(st, fs, pr) ==
  IF st = << >> THEN {Res(FALSE, st, fs, pr)}
  ELSE IF NotString(Top(st)) THEN {Res(FALSE, Front(st), fs, pr)}
  ELSE Called("is_file",
         IF ~FileExists(fs, Top(st).data) THEN {Res(FALSE, Front(st), fs, pr)}
         ELSE {Res(TRUE, Append(Front(st), Bool(~IsDir(Top(st).data))), fs,
                   pr)})

RunImRead(st, fs, pr) ==
  IF st = << >> THEN {Res(FALSE, st, fs, pr)}
  ELSE IF NotString(Top(st)) THEN {Res(FALSE, Front(st), fs, pr)}
  ELSE LET read == ReadFile(fs, Top(st).data) IN
       Called("read_file",
         IF read = << >> \/ ~IsImageFile(read[1])
           THEN {Res(FALSE, Front(st), fs, pr)}
           ELSE {Res(TRUE, Append(Front(st), DecodeImage(read[1])), fs, pr)})

RunImWrite(st, fs, pr) ==
  IF st = << >> THEN {Res(FALSE, st, fs, pr)}
  ELSE IF Len(st) < 2 THEN {Res(FALSE, Front(st), fs, pr)}
  ELSE LET path == Top(st)
           value == Top(Front(st))
           rest == Front(Front(st)) IN
       IF NotString(path) THEN {Res(FALSE, rest, fs, pr)}
       ELSE LET bytes == value_to_image_bytes(
                           value, OutputFormat(AfterLastDot(path.data))) IN
            IF bytes = << >> THEN {Res(FALSE, rest, fs, pr)}
            ELSE Called("write_file",
                   IF ~CanWrite(path.data) THEN {Res(FALSE, rest, fs, pr)}
                   ELSE {Res(TRUE, rest, WriteFile(fs, path.data, bytes[1]),
                             pr)})

\* env.vm.io.show_image: the trait's default returns Err
RunImShow(st, fs, pr) ==
  IF st = << >> THEN {Res(FALSE, st, fs, pr)}
  ELSE IF value_to_image(Top(st)) = << >> THEN {Res(FALSE, Front(st), fs, pr)}
  ELSE Called("show_image", {Res(show_image, Front(st), fs, pr)})

\* IoOp::run for every op but Import
RunOp(op, st, fs, pr) ==
  CASE op = "Show" -> RunShow(st, fs, pr)
    [] op = "Print" -> RunPrint(st, fs, pr)
    [] op = "Println" -> RunPrintln(st, fs, pr)
    [] op = "ScanLn" -> RunScanLn(st, fs, pr)
    [] op = "Args" -> RunArgs(st, fs, pr)
    [] op = "Var" -> RunVar(st, fs, pr)
    [] op = "Rand" -> RunRand(st, fs, pr)
    [] op = "FReadStr" -> RunFReadStr(st, fs, pr)
    [] op = "FWriteStr" -> RunFWriteStr(st, fs, pr)
    [] op = "FReadBytes" -> RunFReadBytes(st, fs, pr)
    [] op = "FWriteBytes" -> RunFWriteBytes(st, fs, pr)
    [] op = "FLines" -> RunFLines(st, fs, pr)
    [] op = "FExists" -> RunFExists(st, fs, pr)
    [] op = "FListDir" -> RunFListDir(st, fs, pr)
    [] op = "FIsFile" -> RunFIsFile(st, fs, pr)
    [] op = "Now" -> RunNow(st, fs, pr)
    [] op = "ImRead" -> RunImRead(st, fs, pr)
    [] op = "ImWrite" -> RunImWrite(st, fs, pr)
    [] op = "ImShow" -> RunImShow(st, fs, pr)

(***************************************************************************)
(* The trait IoBackend and its implementation for &mut T.                  *)
(***************************************************************************)
\* the methods of the trait
IoBackendMethods ==
  {"print_str", "rand", "show_image", "scan_line", "import", "var", "args",
   "file_exists", "list_dir", "is_file", "read_file", "write_file"}

\* a wrapper that leaves read_file to the trait
RefMutWithoutReadFile == IoBackendMethods \ {"read_file"}

\* the methods `impl IoBackend for &mut T` defines as (**self).method(..)
RefMutMethods ==
  {"print_str", "rand", "show_image", "scan_line", "import", "var", "args",
   "file_exists", "list_dir", "is_file", "read_file", "write_file"}

\* the outcome of an op whose backend call runs the trait's default body:
\* an empty line, no variable, no arguments, no file, or Err("not supported")
TraitDefault(op, st, fs, pr) ==
  CASE op = "ScanLn" ->
         Called("scan_line", {Res(TRUE, Append(st, Str(<< >>)), fs, pr)})
    [] op = "Args" ->
         Called("args",
                {Res(TRUE, Append(st, [ty |-> "char", shape |-> <<0>>,
                                       data |-> << >>]), fs, pr)})
    [] op = "Var" ->
         Called("var", {Res(TRUE, Append(Front(st), Str(<< >>)), fs, pr)})
    [] op = "FExists" ->
         Called("file_exists",
                {Res(TRUE, Append(Front(st), Bool(FALSE)), fs, pr)})
    [] op \in {"FWriteStr", "FWriteBytes", "ImWrite"} ->
         Called("write_file", {Res(FALSE, Front(Front(st)), fs, pr)})
    [] OTHER -> {Res(FALSE, Front(st), fs, pr)}

\* IoOp::run against a backend reached through n `&mut` wrappers: a call of
\* a method the wrapper defines arrives at the backend itself
RunOpVia(n, op, st, fs, pr) ==
  LET R == RunOp(op, st, fs, pr) IN
  IF n = 0 \/ \A r \in R : \A k \in DOMAIN r.calls : r.calls[k] \in RefMutMethods
    THEN R
    ELSE TraitDefault(op, st, fs, pr)

(***************************************************************************)
(* Source files, Assembly::load_file and run_with_backend.                 *)
(***************************************************************************)
Push(v) == [kind |-> "push", op |-> "", v |-> v]
Io(op) == [kind |-> "io", op |-> op, v |-> Func]

\* source texts, as bytes
SrcTen == <<49, 48>>
SrcSelf == <<105, 97>>
SrcBad == <<33>>
SrcSelfBad == <<105, 97, 105>>
Sources == {SrcTen, SrcSelf, SrcBad, SrcSelfBad}

\* prints 10 and leaves the stack 1 10
ProgTen == <<Push(Num(10)), Io("Println"), Push(Num(1)), Push(Num(10))>>
\* imports "a" and pushes 1
ProgSelf == <<Push(Str(PathA)), Io("Import"), Push(Num(1))>>
\* fails at run time: println on an empty stack
ProgBad == <<Io("Println")>>
\* imports "a", then imports the path on top of the stack that left
ProgSelfBad == <<Push(Str(PathA)), Io("Import"), Io("Import")>>

\* compiling a source text: Ok(assembly) is <<prog>>, Err is << >>
Compile(text) ==
  CASE text = SrcTen -> <<ProgTen>>
    [] text = SrcSelf -> <<ProgSelf>>
    [] text = SrcBad -> <<ProgBad>>
    [] text = SrcSelfBad -> <<ProgSelfBad>>
    [] OTHER -> << >>

\* Assembly::load_file(path)
load_file(fs, d) ==
  IF ReadFile(fs, d) = << >> \/ ~Utf8Ok(ReadFile(fs, d)[1]) THEN << >>
  ELSE Compile(ReadFile(fs, d)[1])

(***************************************************************************)
(* StdIo::import and the interpreter loop.                                 *)
(***************************************************************************)
Count(f, k) == IF k \in DOMAIN f THEN f[k] ELSE 0
Insert(f, k, v) == [x \in DOMAIN f \cup {k} |-> IF x = k THEN v ELSE f[x]]

\* an import that never finds the path in the cache
ContainsKeyNever(imps, key) == FALSE

\* self.imports.contains_key(path)
ContainsKey(imps, key) == key \in DOMAIN imps

Depth == Len(frames)
Cur == frames[Depth]

\* an import that marks the path as being loaded before it runs the file
ImportsBeforeRunMarked(imps, key) == Insert(imps, key, << >>)

\* the cache when the run of a file that was not in it begins: nothing is
\* inserted between contains_key and run_with_backend
ImportsBeforeRun(imps, key) == imps

\* an imported file that runs against a backend of its own
ImportsOfFresh(d) == IF d = 1 THEN imports ELSE [x \in {} |-> << >>]

\* the cache the imports of frame d consult: the file was started with
\* run_with_backend(&mut *self), its backend is the importer's
ImportsOf(d) == imports

NoOp == [op |-> "", ok |-> TRUE, pre |-> << >>, post |-> << >>,
         cached |-> FALSE, key |-> << >>, err |-> << >>, at |-> 0,
         calls |-> << >>]

\* an import whose error is returned as it is
ImportErrUnwrapped(e) == e

\* .map_err(RuntimeError::Import)
ImportErr(e) == <<"Import">> \o e

\* the error e of a file run n imports deep, as the outermost import returns it
RECURSIVE Wrap(_, _)
Wrap(n, e) == IF n = 0 THEN e ELSE Wrap(n - 1, ImportErr(e))

\* an error return of the op at the current frame: every import in progress
\* returns Err(RuntimeError::Import(..)) through `?`, nothing is cached
Fail(op, st, e, c) ==
  /\ frames' = <<[frames[1] EXCEPT !.ip = @ + 1,
                                   !.stack = IF Depth = 1 THEN st ELSE @]>>
  /\ last' = [op |-> IF Depth = 1 THEN op ELSE "Import", ok |-> FALSE,
              pre |-> IF Depth = 1 THEN Cur.stack
                      ELSE Append(frames[1].stack, frames[2].name),
              post |-> IF Depth = 1 THEN st ELSE frames[1].stack,
              cached |-> FALSE, key |-> << >>, err |-> Wrap(Depth - 1, e),
              at |-> frames[1].ip,
              calls |-> IF Depth = 1 THEN c ELSE <<"import">>]

\* the current frame continues with the stack st
Continue(st) ==
  frames' = [frames EXCEPT ![Depth].stack = st, ![Depth].ip = @ + 1]

\* IoOp::Import at the current frame
ExecImport ==
  LET st == Cur.stack IN
  IF st = << >> THEN
    Fail("Import", st, <<"Error">>, << >>) /\ UNCHANGED <<imports, files, printed, loads>>
  ELSE IF NotString(Top(st)) THEN
    Fail("Import", Front(st), <<"Error">>, << >>) /\ UNCHANGED <<imports, files, printed, loads>>
  ELSE IF Depth > 1 /\ "import" \notin RefMutMethods THEN
    Fail("Import", Front(st), <<"Error">>, <<"import">>)
      /\ UNCHANGED <<imports, files, printed, loads>>
  ELSE
    LET key == Top(st).data IN
    IF ContainsKey(ImportsOf(Depth), key) THEN
      /\ Continue(Front(st) \o ImportsOf(Depth)[key])
      /\ last' = [op |-> "Import", ok |-> TRUE, pre |-> st,
                  post |-> Front(st) \o ImportsOf(Depth)[key], cached |-> TRUE,
                  key |-> key, err |-> << >>, at |-> frames[1].ip,
                  calls |-> <<"import">>]
      /\ UNCHANGED <<imports, files, printed, loads>>
    ELSE
      /\ Depth < MaxDepth
      /\ loads' = Insert(loads, key, Count(loads, key) + 1)
      /\ IF load_file(files, key) = << >>
           THEN /\ Fail("Import", Front(st), ImportErr(<<"Load">>), <<"import">>)
                /\ UNCHANGED imports
           ELSE /\ frames' = Append([frames EXCEPT ![Depth].stack = Front(st)],
                                    [name |-> Top(st), prog |-> load_file(files, key)[1],
                                     ip |-> 1, stack |-> << >>])
                /\ imports' = ImportsBeforeRun(imports, key)
                /\ UNCHANGED last
      /\ UNCHANGED <<files, printed>>

\* one instruction at the current frame
Exec(instr) ==
  IF instr.kind = "push" THEN
    /\ Continue(Append(Cur.stack, instr.v))
    /\ UNCHANGED <<imports, files, printed, loads, last>>
  ELSE IF instr.op = "Import" THEN ExecImport
  ELSE
    \E r \in RunOpVia(Depth - 1, instr.op, Cur.stack, files, printed) :
      /\ IF r.ok
           THEN /\ Continue(r.stack)
                /\ last' = [op |-> instr.op, ok |-> TRUE, pre |-> Cur.stack,
                            post |-> r.stack, cached |-> FALSE, key |-> << >>,
                            err |-> << >>, at |-> frames[1].ip,
                            calls |-> r.calls]
           ELSE Fail(instr.op, r.stack, <<"Error">>, r.calls)
      /\ files' = r.files
      /\ printed' = r.printed
      /\ UNCHANGED <<imports, loads>>

\* the values the running program pushes
Image113 == [ty |-> "byte", shape |-> <<1, 1, 3>>, data |-> <<255, 0, 0>>]
Image112 == [ty |-> "byte", shape |-> <<1, 1, 2>>, data |-> <<255, 0>>]
RootValues ==
  {Str(PathA), Str(PathDotA), Str(PathB), Str(PathDot), Str(SrcTen), Num(1),
   Image113, Image112, Func}

RootInstrs == {Push(v) : v \in RootValues} \cup {Io(op) : op \in IoOp}

\* the instructions of a running program that only imports files
ImportInstrs ==
  {Push(Str(PathA)), Push(Str(PathDotA)), Push(Str(PathB)), Push(Num(1)),
   Io("Import")}

WatchIdle ==
  /\ UNCHANGED <<wvars, clivars, nvars>>

\* the running program executes its next instruction
RootStep ==
  /\ Depth = 1 /\ Cur.ip <= MaxOps
  /\ \E instr \in RootInstrs : Exec(instr)
  /\ UNCHANGED <<edits, show_image>>
  /\ WatchIdle

\* the running program, restricted to imports, executes its next instruction
ImportStep ==
  /\ Depth = 1 /\ Cur.ip <= MaxImportOps
  /\ \E instr \in ImportInstrs : Exec(instr)
  /\ UNCHANGED <<edits, show_image>>
  /\ WatchIdle

\* the file being imported executes its next instruction
FrameStep ==
  /\ Depth > 1 /\ Cur.ip <= Len(Cur.prog)
  /\ Exec(Cur.prog[Cur.ip])
  /\ UNCHANGED <<edits, show_image>>
  /\ WatchIdle

\* run_with_backend returns the file's stack: StdIo::import inserts it under
\* the path and returns a clone of the entry, IoOp::run pushes each value
FrameReturn ==
  /\ Depth > 1 /\ Cur.ip > Len(Cur.prog)
  /\ LET key == Cur.name.data
         parent == frames[Depth - 1] IN
     /\ imports' = Insert(imports, key, Cur.stack)
     /\ frames' = [SubSeq(frames, 1, Depth - 1) EXCEPT
                     ![Depth - 1].stack = parent.stack \o imports'[key],
                     ![Depth - 1].ip = @ + 1]
     /\ last' = [op |-> "Import", ok |-> TRUE,
                 pre |-> Append(parent.stack, Cur.name),
                 post |-> parent.stack \o imports'[key], cached |-> FALSE,
                 key |-> key, err |-> << >>, at |-> frames[1].ip,
                 calls |-> <<"import">>]
  /\ UNCHANGED <<files, printed, loads, edits, show_image>>
  /\ WatchIdle

\* a file is changed from outside (an editor saves it)
FileEdit ==
  /\ edits < MaxEdits
  /\ \E d \in {PathA, PathB}, src \in Sources :
       /\ ReadFile(files, d) # <<src>>
       /\ files' = WriteFile(files, d, src)
  /\ edits' = edits + 1
  /\ UNCHANGED <<frames, imports, printed, loads, show_image, last>>
  /\ WatchIdle

EmptyMap == [x \in {} |-> << >>]

(***************************************************************************)
(* Names of system ops: IoOp::name and IoOp::from_name.                    *)
(***************************************************************************)
\* calls of name and from_name that are followed
MaxNames == 3

\* the strings from_name is given: the names, the identifiers of the
\* variants, and words that are no op's name
Words ==
  {io_op[k][4] : k \in DOMAIN io_op} \cup {io_op[k][3] : k \in DOMAIN io_op}
    \cup {"", "printl", "println ", "PRINT", "read", "freadstr2", "im"}

NoName == [op |-> "", s |-> "", called |-> FALSE, res |-> << >>, n |-> 0]

NamesIdle == UNCHANGED <<wvars, iovars, clivars>>

\* op.name() for some op
Name ==
  /\ named.n < MaxNames
  /\ \E op \in IoOp :
       named' = [op |-> op, s |-> IoOp_name(op), called |-> FALSE,
                 res |-> << >>, n |-> named.n + 1]
  /\ NamesIdle

\* IoOp::from_name of the name just obtained
FromName ==
  /\ named.op # "" /\ ~named.called
  /\ named' = [named EXCEPT !.called = TRUE,
                            !.res = IoOp_from_name(named.s)]
  /\ NamesIdle

\* IoOp::from_name of a word of the source text
Lookup ==
  /\ named.n < MaxNames
  /\ \E s \in Words :
       named' = [op |-> "", s |-> s, called |-> TRUE,
                 res |-> IoOp_from_name(s), n |-> named.n + 1]
  /\ NamesIdle

\* the file systems a run starts with
InitFiles ==
  {[n \in {PathA} |-> SrcTen], [n \in {PathA} |-> SrcSelf],
   [n \in {PathA} |-> SrcBad], [n \in {PathA} |-> SrcSelfBad], EmptyMap,
   [n \in {PathA, PathB} |-> IF n = PathA THEN SrcTen ELSE SrcSelf]}

InitIo ==
  /\ frames = <<[name |-> Func, prog |-> << >>, ip |-> 1, stack |-> << >>]>>
  /\ imports = EmptyMap
  /\ files \in InitFiles
  /\ printed = 0
  /\ loads = EmptyMap
  /\ edits = 0
  /\ show_image \in BOOLEAN
  /\ last = NoOp
  /\ named = NoName

InitWatch ==
  /\ pc = "start"
  /\ ret = "init"
  /\ runPath = ""
  /\ WATCH_CHILD = 0
  /\ children = << >>
  /\ runs = 0
  /\ lock = "free"
  /\ hpc = "idle"
  /\ proc = "running"
  /\ exitStatus = -1
  /\ exitCause = "none"
  /\ i = 0
  /\ sleepMs = 0
  /\ reported = "none"
  /\ events = << >>
  /\ elapsed = "zero"
  /\ format \in BOOLEAN
  /\ stdin_file \in BOOLEAN
  /\ initial_path \in {"", "main.ua"}
  /\ sigKilled = FALSE

\* the outcomes of one format attempt: format_file when a config is loaded
\* and formatting is on, fs::read_to_string otherwise
Outcomes(fmt) ==
  IF fmt THEN {"ok", "empty", "format_err", "load_err"}
         ELSE {"ok", "empty", "load_err"}

\* where the run closure's caller continues after Ok(()):
\* line 424 after the initial run, line 447 after a run of the loop
RetPc(r) == IF r = "init" THEN "poll" ELSE "wait_lock"

\* `?` on an io::Error inside watch(): watch returns Err, run() prints
\* "Error watching file" and returns Ok(()), main returns
WatchReturnsErr ==
  /\ pc' = "returned"
  /\ proc' = "exited"
  /\ exitStatus' = 0
  /\ exitCause' = "watch_err"

(***************************************************************************)
(* The main thread: watch() and its run closure.                           *)
(***************************************************************************)
\* if let Some(path) = initial_path { run(path, ..)?; }
StartWatch ==
  /\ proc = "running" /\ pc = "start"
  /\ UNCHANGED <<iovars, clivars, nvars>>
  /\ IF initial_path # ""
       THEN /\ pc' = "run_lock"
            /\ runPath' = initial_path
            /\ runs' = runs + 1
            /\ UNCHANGED elapsed
       ELSE /\ pc' = "poll"
            /\ elapsed' = "zero"
            /\ UNCHANGED <<runPath, runs>>
  /\ ret' = "init"
  /\ UNCHANGED <<WATCH_CHILD, children, lock, hpc, proc, exitStatus,
                 exitCause, i, sleepMs, reported,
                 events, format, stdin_file, initial_path, sigKilled>>

\* entry of the run closure: WATCH_CHILD.lock()
RunLock ==
  /\ proc = "running" /\ pc = "run_lock" /\ lock = "free"
  /\ UNCHANGED <<iovars, clivars, nvars>>
  /\ lock' = "main"
  /\ pc' = "run_take"
  /\ reported' = "none"
  /\ sigKilled' = FALSE
  /\ UNCHANGED <<ret, runPath, WATCH_CHILD, children, runs, hpc, proc,
                 exitStatus, exitCause, i, sleepMs, events, elapsed, format,
                 stdin_file, initial_path>>

\* a run closure that takes the child out of the slot without killing it
RunTakeNoKill ==
  /\ proc = "running" /\ pc = "run_take"
  /\ UNCHANGED <<iovars, clivars, nvars>>
  /\ WATCH_CHILD' = 0
  /\ lock' = "free"
  /\ pc' = "format"
  /\ UNCHANGED <<ret, runPath, children, runs, hpc, proc, exitStatus,
                 exitCause, i, sleepMs, reported,
                 events, elapsed, format, stdin_file, initial_path, sigKilled>>

\* if let Some(mut child) = ...take() { _ = child.kill(); print_watching(); }
\* the guard is a temporary of the `if let`: it is dropped after the body
RunTake ==
  /\ proc = "running" /\ pc = "run_take"
  /\ UNCHANGED <<iovars, clivars, nvars>>
  /\ IF WATCH_CHILD # 0
       THEN children' = Kill(children, WATCH_CHILD)
       ELSE UNCHANGED children
  /\ WATCH_CHILD' = 0
  /\ lock' = "free"
  /\ pc' = "format"
  /\ UNCHANGED <<ret, runPath, runs, hpc, proc, exitStatus, exitCause,
                 i, sleepMs, reported, events, elapsed, format,
                 stdin_file, initial_path, sigKilled>>

\* one iteration of `for i in 0..TRIES` up to the match on `formatted`
FormatAttempt ==
  /\ proc = "running" /\ pc = "format"
  /\ UNCHANGED <<iovars, clivars, nvars>>
  /\ \E o \in Outcomes(format) :
       CASE o = "ok" ->
              /\ pc' = IF stdin_file THEN "open_stdin" ELSE "spawn"
              /\ i' = 0
              /\ UNCHANGED <<sleepMs, reported, elapsed>>
         [] o = "empty" ->
              /\ pc' = RetPc(ret)
              /\ i' = 0
              /\ elapsed' = "zero"
              /\ UNCHANGED <<sleepMs, reported>>
         [] o = "format_err" ->
              /\ pc' = "retry_sleep"
              /\ sleepMs' = SleepMs(i)
              /\ UNCHANGED <<i, reported, elapsed>>
         [] o = "load_err" ->
              /\ pc' = RetPc(ret)
              /\ i' = 0
              /\ reported' = "error"
              /\ elapsed' = "zero"
              /\ UNCHANGED sleepMs
  /\ UNCHANGED <<ret, runPath, WATCH_CHILD, children, runs, lock, hpc, proc,
                 exitStatus, exitCause, events, format, stdin_file,
                 initial_path, sigKilled>>

\* the sleep after a Format error ends: the next iteration, or after the
\* last one println!("Failed to format file after {TRIES} tries"); Ok(())
RetrySleep ==
  /\ proc = "running" /\ pc = "retry_sleep"
  /\ UNCHANGED <<iovars, clivars, nvars>>
  /\ sleepMs' = 0
  /\ IF i + 1 < TRIES
       THEN /\ pc' = "format"
            /\ i' = i + 1
            /\ UNCHANGED <<reported, elapsed>>
       ELSE /\ pc' = RetPc(ret)
            /\ i' = 0
            /\ reported' = "failed_tries"
            /\ elapsed' = "zero"
  /\ UNCHANGED <<ret, runPath, WATCH_CHILD, children, runs, lock, hpc, proc,
                 exitStatus, exitCause, events, format, stdin_file,
                 initial_path, sigKilled>>

\* let stdin_file = stdin_file.map(fs::File::open).transpose()?;
OpenStdin ==
  /\ proc = "running" /\ pc = "open_stdin"
  /\ UNCHANGED <<iovars, clivars, nvars>>
  /\ \E opened \in BOOLEAN :
       IF opened
         THEN /\ pc' = "spawn"
              /\ UNCHANGED <<proc, exitStatus, exitCause, reported>>
         ELSE /\ WatchReturnsErr
              /\ reported' = "watch_error"
  /\ UNCHANGED <<ret, runPath, WATCH_CHILD, children, runs, lock, hpc,
                 i, sleepMs, events, elapsed, format,
                 stdin_file, initial_path, sigKilled>>

\* a spawn that lets the child format the file and inherit stdin
SpawnPlainRun ==
  /\ proc = "running" /\ pc = "spawn"
  /\ UNCHANGED <<iovars, clivars, nvars>>
  /\ children' = Append(children,
                        [path |-> runPath, stdin |-> "inherit",
                         no_format |-> FALSE, mode |-> "normal",
                         status |-> "alive"])
  /\ pc' = "store_lock"
  /\ UNCHANGED <<ret, runPath, WATCH_CHILD, runs, lock, hpc, proc, exitStatus,
                 exitCause, i, sleepMs, reported, events, elapsed, format,
                 stdin_file, initial_path, sigKilled>>

\* Command::new(current_exe).arg("run").arg(path)...spawn().unwrap():
\* the assigned value is evaluated before the assignee WATCH_CHILD.lock()
Spawn ==
  /\ proc = "running" /\ pc = "spawn"
  /\ UNCHANGED <<iovars, clivars, nvars>>
  /\ \E spawned \in BOOLEAN :
       IF spawned
         THEN /\ children' = Append(children,
                     [path |-> runPath,
                      stdin |-> IF stdin_file THEN "file" ELSE "inherit",
                      no_format |-> TRUE, mode |-> "all", status |-> "alive"])
              /\ pc' = "store_lock"
              /\ UNCHANGED <<proc, exitStatus, exitCause>>
         ELSE \* unwrap() panics on the main thread
              /\ pc' = "returned"
              /\ proc' = "exited"
              /\ exitStatus' = 101
              /\ exitCause' = "panic"
              /\ UNCHANGED children
  /\ UNCHANGED <<ret, runPath, WATCH_CHILD, runs, lock, hpc, i, sleepMs, reported, events, elapsed, format,
                 stdin_file, initial_path, sigKilled>>

\* *WATCH_CHILD.lock() = Some(child): the lock
StoreLock ==
  /\ proc = "running" /\ pc = "store_lock" /\ lock = "free"
  /\ UNCHANGED <<iovars, clivars, nvars>>
  /\ lock' = "main"
  /\ pc' = "store"
  /\ UNCHANGED <<ret, runPath, WATCH_CHILD, children, runs, hpc, proc,
                 exitStatus, exitCause, i, sleepMs,
                 reported, events, elapsed, format, stdin_file, initial_path,
                 sigKilled>>

\* a store whose guard outlives the statement
StoreKeepsGuard ==
  /\ proc = "running" /\ pc = "store"
  /\ UNCHANGED <<iovars, clivars, nvars>>
  /\ WATCH_CHILD' = Len(children)
  /\ pc' = RetPc(ret)
  /\ elapsed' = "zero"
  /\ UNCHANGED <<ret, runPath, children, runs, lock, hpc, proc, exitStatus,
                 exitCause, i, sleepMs, reported,
                 events, format, stdin_file, initial_path, sigKilled>>

\* *WATCH_CHILD.lock() = Some(child): the store, then return Ok(())
Store ==
  /\ proc = "running" /\ pc = "store"
  /\ UNCHANGED <<iovars, clivars, nvars>>
  /\ WATCH_CHILD' = Len(children)
  /\ lock' = "free"
  /\ pc' = RetPc(ret)
  /\ elapsed' = "zero"
  /\ UNCHANGED <<ret, runPath, children, runs, hpc, proc, exitStatus,
                 exitCause, i, sleepMs, reported,
                 events, format, stdin_file, initial_path, sigKilled>>

\* a poll that leaves the events in the channel when it starts no run
PollKeepsEvents ==
  /\ proc = "running" /\ pc = "poll"
  /\ UNCHANGED <<iovars, clivars, nvars>>
  /\ \E e \in AfterSleep(elapsed) :
       /\ elapsed' = e
       /\ IF events # << >> /\ e = "long"
            THEN /\ pc' = "run_lock"
                 /\ ret' = "loop"
                 /\ runPath' = events[Len(events)]
                 /\ runs' = runs + 1
                 /\ events' = << >>
            ELSE /\ pc' = "wait_lock"
                 /\ UNCHANGED <<ret, runPath, runs, events>>
  /\ UNCHANGED <<WATCH_CHILD, children, lock, hpc, proc, exitStatus,
                 exitCause, i, sleepMs, reported,
                 format, stdin_file, initial_path, sigKilled>>

\* sleep(10 ms); drain recv; run the last modified .ua path when more than
\* 100 ms have passed since last_time
Poll ==
  /\ proc = "running" /\ pc = "poll"
  /\ UNCHANGED <<iovars, clivars, nvars>>
  /\ \E e \in AfterSleep(elapsed) :
       /\ elapsed' = e
       /\ IF events # << >> /\ e = "long"
            THEN /\ pc' = "run_lock"
                 /\ ret' = "loop"
                 /\ runPath' = events[Len(events)]
                 /\ runs' = runs + 1
            ELSE /\ pc' = "wait_lock"
                 /\ UNCHANGED <<ret, runPath, runs>>
  /\ events' = << >>
  /\ UNCHANGED <<WATCH_CHILD, children, lock, hpc, proc, exitStatus,
                 exitCause, i, sleepMs, reported,
                 format, stdin_file, initial_path, sigKilled>>

\* let mut child = WATCH_CHILD.lock();
WaitLock ==
  /\ proc = "running" /\ pc = "wait_lock" /\ lock = "free"
  /\ UNCHANGED <<iovars, clivars, nvars>>
  /\ lock' = "main"
  /\ pc' = "wait"
  /\ UNCHANGED <<ret, runPath, WATCH_CHILD, children, runs, hpc, proc,
                 exitStatus, exitCause, i, sleepMs,
                 reported, events, elapsed, format, stdin_file, initial_path,
                 sigKilled>>

\* a loop that polls the child but leaves its handle in the slot
WaitNoClear ==
  /\ proc = "running" /\ pc = "wait"
  /\ UNCHANGED <<iovars, clivars, nvars>>
  /\ pc' = "poll"
  /\ lock' = "free"
  /\ UNCHANGED <<WATCH_CHILD, proc, exitStatus, exitCause, reported>>
  /\ UNCHANGED <<ret, runPath, children, runs, hpc, i, sleepMs, events,
                 elapsed, format, stdin_file, initial_path, sigKilled>>

\* if let Some(ch) = &mut *child { if ch.try_wait()?.is_some() { .. } }
Wait ==
  /\ proc = "running" /\ pc = "wait"
  /\ UNCHANGED <<iovars, clivars, nvars>>
  /\ IF WATCH_CHILD = 0
       THEN /\ pc' = "poll"
            /\ lock' = "free"
            /\ UNCHANGED <<WATCH_CHILD, proc, exitStatus, exitCause,
                           reported>>
       ELSE \E polled \in BOOLEAN :
              IF polled
                THEN /\ pc' = "poll"
                     /\ lock' = "free"
                     /\ IF children[WATCH_CHILD].status = "alive"
                          THEN UNCHANGED WATCH_CHILD
                          ELSE WATCH_CHILD' = 0
                     /\ UNCHANGED <<proc, exitStatus, exitCause, reported>>
                ELSE /\ WatchReturnsErr
                     /\ reported' = "watch_error"
                     /\ lock' = "free"
                     /\ UNCHANGED WATCH_CHILD
  /\ UNCHANGED <<ret, runPath, children, runs, hpc, i, sleepMs, events, elapsed, format, stdin_file,
                 initial_path, sigKilled>>

(***************************************************************************)
(* The ctrl-C handler thread.                                              *)
(***************************************************************************)
\* a SIGINT is delivered to the process
Sigint ==
  /\ proc = "running" /\ hpc = "idle"
  /\ UNCHANGED <<iovars, clivars, nvars>>
  /\ hpc' = "signalled"
  /\ UNCHANGED <<pc, ret, runPath, WATCH_CHILD, children, runs, lock, proc,
                 exitStatus, exitCause, i, sleepMs,
                 reported, events, elapsed, format, stdin_file, initial_path,
                 sigKilled>>

\* let mut child = WATCH_CHILD.lock();
HandlerLock ==
  /\ proc = "running" /\ hpc = "signalled" /\ lock = "free"
  /\ UNCHANGED <<iovars, clivars, nvars>>
  /\ lock' = "handler"
  /\ hpc' = "locked"
  /\ UNCHANGED <<pc, ret, runPath, WATCH_CHILD, children, runs, proc,
                 exitStatus, exitCause, i, sleepMs,
                 reported, events, elapsed, format, stdin_file, initial_path,
                 sigKilled>>

\* a handler that kills the child but leaves its handle in the slot
HandlerRunNoClear ==
  /\ proc = "running" /\ hpc = "locked"
  /\ UNCHANGED <<iovars, clivars, nvars>>
  /\ IF WATCH_CHILD # 0
       THEN /\ children' = Kill(children, WATCH_CHILD)
            /\ reported' = "interrupted"
            /\ lock' = "free"
            /\ hpc' = "idle"
            /\ sigKilled' = TRUE
            /\ UNCHANGED <<proc, exitStatus, exitCause>>
       ELSE /\ proc' = "exited"
            /\ exitStatus' = 0
            /\ exitCause' = "sigint"
            /\ UNCHANGED <<children, reported, lock, hpc, sigKilled>>
  /\ UNCHANGED <<pc, ret, runPath, WATCH_CHILD, runs, i, sleepMs, events, elapsed, format, stdin_file, initial_path>>

\* if let Some(ch) = &mut *child { kill; *child = None } else { exit(0) }
HandlerRun ==
  /\ proc = "running" /\ hpc = "locked"
  /\ UNCHANGED <<iovars, clivars, nvars>>
  /\ IF WATCH_CHILD # 0
       THEN /\ children' = Kill(children, WATCH_CHILD)
            /\ WATCH_CHILD' = 0
            /\ reported' = "interrupted"
            /\ lock' = "free"
            /\ hpc' = "idle"
            /\ sigKilled' = TRUE
            /\ UNCHANGED <<proc, exitStatus, exitCause>>
       ELSE /\ proc' = "exited"
            /\ exitStatus' = 0
            /\ exitCause' = "sigint"
            /\ UNCHANGED <<children, WATCH_CHILD, reported, lock, hpc,
                           sigKilled>>
  /\ UNCHANGED <<pc, ret, runPath, runs, i, sleepMs,
                 events, elapsed, format, stdin_file, initial_path>>

(***************************************************************************)
(* The environment: the file system watcher and the child processes.       *)
(***************************************************************************)
\* notify sends a Modify event for a .ua file
FileEvent ==
  /\ proc = "running" /\ Len(events) < MaxEvents /\ runs < MaxRuns
  /\ UNCHANGED <<iovars, clivars, nvars>>
  /\ \E p \in UaPaths : events' = Append(events, p)
  /\ UNCHANGED <<pc, ret, runPath, WATCH_CHILD, children, runs, lock, hpc,
                 proc, exitStatus, exitCause, i, sleepMs, reported, elapsed, format, stdin_file,
                 initial_path, sigKilled>>

\* a child process exits on its own
ChildExit ==
  /\ UNCHANGED <<iovars, clivars, nvars>>
  /\ \E c \in Alive : children' = [children EXCEPT ![c].status = "exited"]
  /\ UNCHANGED <<pc, ret, runPath, WATCH_CHILD, runs, lock, hpc, proc,
                 exitStatus, exitCause, i, sleepMs,
                 reported, events, elapsed, format, stdin_file, initial_path,
                 sigKilled>>

NextWatch ==
  \/ StartWatch \/ RunLock \/ RunTake \/ FormatAttempt \/ RetrySleep
  \/ OpenStdin
  \/ Spawn \/ StoreLock \/ Store \/ Poll \/ WaitLock \/ Wait
  \/ Sigint \/ HandlerLock \/ HandlerRun
  \/ FileEvent \/ ChildExit

\* the watcher, with no program running in this process
(***************************************************************************)
(* The command line: run() and working_file_path().                        *)
(***************************************************************************)
MaxCommands == 2
MaxLines == 2

\* entries of the project directory; "lib/c.ua" is in a directory other
\* than `.` and `src`
Entries ==
  {"src/main.ua", "main.ua", "a.ua", "src/b.ua", "notes.txt", "lib/c.ua"}

\* fs::read_dir(".") chained with fs::read_dir("src")
ReadDirs(d) ==
  DOMAIN d \cap {"src/main.ua", "main.ua", "a.ua", "src/b.ua", "notes.txt"}

\* entry.path().extension().is_some_and(|ext| ext == "ua")
ExtensionIsUa(e) == e \in {"src/main.ua", "main.ua", "a.ua", "src/b.ua", "lib/c.ua"}

Ok(p) == [ok |-> TRUE, path |-> p, err |-> ""]
Err(e) == [ok |-> FALSE, path |-> "", err |-> e]

\* a resolution that looks for main.ua before src/main.ua
working_file_path_main_first(d) ==
  IF "main.ua" \in DOMAIN d THEN Ok("main.ua")
  ELSE IF "src/main.ua" \in DOMAIN d THEN Ok("src/main.ua")
  ELSE LET paths == {e \in ReadDirs(d) : ExtensionIsUa(e)} IN
       CASE Cardinality(paths) = 0 -> Err("NoFile")
         [] Cardinality(paths) = 1 -> Ok(CHOOSE e \in paths : TRUE)
         [] OTHER -> Err("MultipleFiles")

working_file_path(d) ==
  LET main_in_src == "src/main.ua"
      main == IF main_in_src \in DOMAIN d THEN main_in_src ELSE "main.ua" IN
  IF main \in DOMAIN d THEN Ok(main)
  ELSE LET paths == {e \in ReadDirs(d) : ExtensionIsUa(e)} IN
       CASE Cardinality(paths) = 0 -> Err("NoFile")
         [] Cardinality(paths) = 1 -> Ok(CHOOSE e \in paths : TRUE)
         [] OTHER -> Err("MultipleFiles")

\* the command lines: subcommand and optional path argument
Apps ==
  [cmd : {"run"}, path : {"", "a.ua"}, no_format : BOOLEAN] \cup
  [cmd : {"fmt", "test"}, path : {"", "a.ua"}, no_format : {FALSE}] \cup
  [cmd : {"init", "eval", "watch", "repl", "none", "invalid"}, path : {""},
   no_format : {FALSE}]

\* the process ends: main returns (status 0), or it calls exit(1) after
\* printing the report of the error run() returned
Exit(out, code) ==
  /\ cli_out' = out
  /\ exit_code' = code
  /\ cpc' = "done"

CliIdle == UNCHANGED <<wvars, iovars, repl, nvars>>

\* an init that writes main.ua whatever is there
CliInitAlways ==
  /\ cpc = "start" /\ app.cmd = "init"
  /\ dir' = [e \in DOMAIN dir \cup {"main.ua"} |->
               IF e = "main.ua" THEN "init" ELSE dir[e]]
  /\ target' = "main.ua"
  /\ Exit("ok", 0)
  /\ UNCHANGED <<app, steps, ncmd>>
  /\ CliIdle

\* App::Init
CliInit ==
  /\ cpc = "start" /\ app.cmd = "init"
  /\ IF working_file_path(dir).ok
       THEN /\ Exit("file_exists", 0)
            /\ target' = working_file_path(dir).path
            /\ UNCHANGED dir
       ELSE \E written \in BOOLEAN :
              /\ target' = "main.ua"
              /\ IF written
                   THEN /\ dir' = [e \in DOMAIN dir \cup {"main.ua"} |->
                                    IF e = "main.ua" THEN "init" ELSE dir[e]]
                        /\ Exit("ok", 0)
                   ELSE /\ UNCHANGED dir
                        /\ Exit("panic", 101)
  /\ UNCHANGED <<app, steps, ncmd>>
  /\ CliIdle

\* App::Fmt: every error is returned with `?`
CliFmt ==
  /\ cpc = "start" /\ app.cmd = "fmt"
  /\ target' = app.path
  /\ \E failed \in BOOLEAN :
       /\ (app.path # "" /\ app.path \notin DOMAIN dir) => failed
       /\ IF failed THEN Exit("report", 1) ELSE Exit("ok", 0)
  /\ UNCHANGED <<dir, app, steps, ncmd>>
  /\ CliIdle

\* the path of App::Run and App::Test: the argument, or the working file;
\* without either the arm prints the NoWorkingFile and returns Ok(())
RunFile ==
  IF app.path = "" /\ ~working_file_path(dir).ok
    THEN /\ target' = ""
         /\ Exit(working_file_path(dir).err, 0)
    ELSE /\ target' = IF app.path # "" THEN app.path
                      ELSE working_file_path(dir).path
         /\ cpc' = IF app.no_format THEN "execute" ELSE "format"
         /\ UNCHANGED <<cli_out, exit_code>>

\* App::Run up to `if !no_format`
CliRun ==
  /\ cpc = "start" /\ app.cmd = "run"
  /\ RunFile
  /\ UNCHANGED <<dir, app, steps, ncmd>>
  /\ CliIdle

\* a format step whose errors are dropped
CliFormatIgnoreErr ==
  /\ cpc = "format"
  /\ \E o \in {"ok", "config_err", "format_err"} :
       /\ target \notin DOMAIN dir => o # "ok"
       /\ steps' = steps \o (CASE o = "ok" -> <<"config_ok", "format_ok">>
                               [] o = "config_err" -> <<"config_err">>
                               [] o = "format_err" ->
                                    <<"config_ok", "format_err">>)
  /\ cpc' = "execute"
  /\ UNCHANGED <<dir, app, cli_out, target, exit_code, ncmd>>
  /\ CliIdle

\* let config = FormatConfig::from_source(..)?; format_file(&path, &config)?;
CliFormat ==
  /\ cpc = "format"
  /\ \E o \in {"ok", "config_err", "format_err"} :
       /\ target \notin DOMAIN dir => o # "ok"
       /\ CASE o = "ok" ->
                /\ steps' = steps \o <<"config_ok", "format_ok">>
                /\ cpc' = "execute"
                /\ UNCHANGED <<cli_out, exit_code>>
            [] o = "config_err" ->
                /\ steps' = steps \o <<"config_err">>
                /\ Exit("report", 1)
            [] o = "format_err" ->
                /\ steps' = steps \o <<"config_ok", "format_err">>
                /\ Exit("report", 1)
  /\ UNCHANGED <<dir, app, target, ncmd>>
  /\ CliIdle

\* rt.load_file(path)?, then the stack or "No failures!" is printed
CliExecute ==
  /\ cpc = "execute"
  /\ steps' = Append(steps, "execute")
  /\ \E failed \in BOOLEAN :
       /\ target \notin DOMAIN dir => failed
       /\ IF failed THEN Exit("report", 1) ELSE Exit("ok", 0)
  /\ UNCHANGED <<dir, app, target, ncmd>>
  /\ CliIdle

\* App::Eval
CliEval ==
  /\ cpc = "start" /\ app.cmd = "eval"
  /\ target' = ""
  /\ \E failed \in BOOLEAN :
       IF failed THEN Exit("report", 1) ELSE Exit("ok", 0)
  /\ UNCHANGED <<dir, app, steps, ncmd>>
  /\ CliIdle

\* App::Test up to the format step
CliTest ==
  /\ cpc = "start" /\ app.cmd = "test"
  /\ RunFile
  /\ UNCHANGED <<dir, app, steps, ncmd>>
  /\ CliIdle

\* App::Watch: watch(working_file_path().ok().as_deref(), ..) is entered
CliWatch ==
  /\ cpc = "start" /\ app.cmd = "watch"
  /\ target' = working_file_path(dir).path
  /\ cli_out' = "watching"
  /\ cpc' = "watching"
  /\ UNCHANGED <<dir, app, steps, exit_code, ncmd>>
  /\ CliIdle

\* the lines typed at the prompt: a number, a function without its
\* arguments, an unterminated string
ReplCodes == {"1", "+", "$"}

\* format_str(&code, &config) returns Ok
format_str_ok(code) == code # "$"

\* rt.load_str(&code) returns Ok
load_str_ok(code) == code = "1"

\* no REPL has been started
NoRepl ==
  [stdout |-> FALSE, rt |-> 0, loaded |-> << >>, n |-> 0, code |-> "",
   result |-> "none", reported |-> 0]

\* App::Repl up to `loop`: the format config, then the runtime
CliRepl ==
  /\ cpc = "start" /\ app.cmd = "repl"
  /\ target' = ""
  /\ \E config_ok \in BOOLEAN, stdout \in BOOLEAN :
       IF config_ok
         THEN /\ repl' = [NoRepl EXCEPT !.stdout = stdout, !.rt = ncmd]
              /\ cpc' = "repl"
              /\ UNCHANGED <<cli_out, exit_code>>
         ELSE /\ Exit("report", 1)
              /\ UNCHANGED repl
  /\ UNCHANGED <<dir, app, steps, ncmd>>
  /\ UNCHANGED <<wvars, iovars, nvars>>

\* print!("» ") at the start of the closure
ReplPrompt ==
  /\ cpc = "repl"
  /\ cpc' = "repl_read"
  /\ UNCHANGED <<dir, app, steps, cli_out, target, exit_code, ncmd, repl>>
  /\ UNCHANGED <<wvars, iovars, nvars>>

\* io::stdin().read_line(&mut code).expect(..): a line arrives, or the read
\* fails and the process panics
ReplRead ==
  /\ cpc = "repl_read"
  /\ repl.n < MaxLines
  /\ \/ \E code \in ReplCodes :
          /\ repl' = [repl EXCEPT !.n = @ + 1, !.code = code]
          /\ cpc' = "repl_eval"
          /\ UNCHANGED <<cli_out, exit_code>>
     \/ /\ Exit("panic", 101)
        /\ UNCHANGED repl
  /\ UNCHANGED <<dir, app, steps, target, ncmd>>
  /\ UNCHANGED <<wvars, iovars, nvars>>

\* what the closure returns for the code read, and the codes its runtime
\* has been given: format_str(..)? comes first when formatter_options.stdout
ReplResult ==
  IF repl.stdout /\ ~format_str_ok(repl.code)
    THEN [ok |-> FALSE, loaded |-> repl.loaded]
    ELSE [ok |-> load_str_ok(repl.code),
          loaded |-> Append(repl.loaded, repl.code)]

\* a loop that returns the closure's error with `?`
ReplEvalPropagate ==
  /\ cpc = "repl_eval"
  /\ IF ReplResult.ok
       THEN /\ repl' = [repl EXCEPT !.loaded = ReplResult.loaded,
                                    !.result = "ok"]
            /\ cpc' = "repl"
            /\ UNCHANGED <<cli_out, exit_code>>
       ELSE /\ repl' = [repl EXCEPT !.loaded = ReplResult.loaded,
                                    !.result = "err"]
            /\ Exit("report", 1)
  /\ UNCHANGED <<dir, app, steps, target, ncmd>>
  /\ UNCHANGED <<wvars, iovars, nvars>>

\* the rest of the closure and of the loop body:
\* if let Err(msg) = repl(&mut rt) { eprintln!("⚠ {}", msg); } println!();
ReplEval ==
  /\ cpc = "repl_eval"
  /\ repl' = [repl EXCEPT !.loaded = ReplResult.loaded,
                          !.result = IF ReplResult.ok THEN "ok" ELSE "err",
                          !.reported = IF ReplResult.ok THEN @ ELSE @ + 1]
  /\ cpc' = "repl"
  /\ UNCHANGED <<dir, app, steps, cli_out, target, exit_code, ncmd>>
  /\ UNCHANGED <<wvars, iovars, nvars>>

\* ^C at the prompt: the slot holds no child, the handler calls exit(0)
ReplSigint ==
  /\ cpc \in {"repl", "repl_read", "repl_eval"}
  /\ Exit("interrupted", 0)
  /\ UNCHANGED <<dir, app, steps, target, ncmd, repl>>
  /\ UNCHANGED <<wvars, iovars, nvars>>

\* Err(e) if e.kind() == DisplayHelpOnMissingArgumentOrSubcommand
CliNoSubcommand ==
  /\ cpc = "start" /\ app.cmd = "none"
  /\ IF working_file_path(dir).err = "NoFile"
       THEN /\ target' = ""
            /\ Exit("NoFile", 0)
       ELSE /\ target' = working_file_path(dir).path
            /\ cli_out' = "watching"
            /\ cpc' = "watching"
            /\ UNCHANGED exit_code
  /\ UNCHANGED <<dir, app, steps, ncmd>>
  /\ CliIdle

\* Err(e) => _ = e.print(), then Ok(())
CliParseError ==
  /\ cpc = "start" /\ app.cmd = "invalid"
  /\ target' = ""
  /\ Exit("usage", 0)
  /\ UNCHANGED <<dir, app, steps, ncmd>>
  /\ CliIdle

\* the user enters the next command line in the same directory
NextCommand ==
  /\ cpc \in {"done", "watching"}
  /\ ncmd < MaxCommands
  /\ app' \in Apps
  /\ cpc' = "start"
  /\ steps' = << >>
  /\ cli_out' = "none"
  /\ target' = ""
  /\ exit_code' = 0 - 1
  /\ ncmd' = ncmd + 1
  /\ repl' = NoRepl
  /\ UNCHANGED dir
  /\ UNCHANGED <<wvars, iovars, nvars>>

\* no command line is being run
InitCliOff ==
  /\ dir = [e \in {} |-> ""]
  /\ app = [cmd |-> "none", path |-> "", no_format |-> FALSE]
  /\ cpc = "off"
  /\ steps = << >>
  /\ cli_out = "none"
  /\ target = ""
  /\ exit_code = 0 - 1
  /\ ncmd = 0
  /\ repl = NoRepl

\* a command line is entered in a directory of the user's files
InitCli ==
  /\ dir \in UNION {[S -> {"user"}] : S \in SUBSET Entries}
  /\ app \in Apps
  /\ cpc = "start"
  /\ steps = << >>
  /\ cli_out = "none"
  /\ target = ""
  /\ exit_code = 0 - 1
  /\ ncmd = 1
  /\ repl = NoRepl

NextCli ==
  \/ CliInit \/ CliFmt \/ CliRun \/ CliFormat \/ CliExecute \/ CliEval
  \/ CliTest \/ CliWatch
  \/ CliRepl \/ ReplPrompt \/ ReplRead \/ ReplEval \/ ReplSigint
  \/ CliNoSubcommand \/ CliParseError \/ NextCommand

Init ==
  InitWatch /\ InitIo /\ files = EmptyMap /\ show_image = FALSE /\ InitCliOff

Next == NextWatch

Spec == Init /\ [][Next]_vars

\* the steps of the main thread and of the ctrl-C handler thread
MainThread ==
  \/ StartWatch \/ RunLock \/ RunTake \/ FormatAttempt \/ RetrySleep
  \/ OpenStdin \/ Spawn \/ StoreLock \/ Store \/ Poll \/ WaitLock \/ Wait

HandlerThread == HandlerLock \/ HandlerRun

\* both threads are scheduled: the main thread takes a step whenever it can,
\* and the handler thread, parked in lock(), gets the lock at one of the
\* unlocks of the main thread, which leaves the lock free during its sleeps;
\* signals, file events and exits of the child are up to the environment
\* watch with a working file, formatting on and --stdin-file: the start from
\* which every step of the run closure can be taken
InitLive == Init /\ format /\ stdin_file /\ initial_path = "main.ua"

SpecLive == InitLive /\ [][Next]_vars /\ WF_vars(MainThread) /\ SF_vars(HandlerThread)

\* a program running system ops against one StdIo backend, no watcher
InitWatchOff ==
  /\ InitWatch
  /\ format = FALSE /\ stdin_file = FALSE /\ initial_path = ""

InitOps == InitWatchOff /\ InitIo /\ InitCliOff

NextIo == RootStep \/ FrameStep \/ FrameReturn

SpecIo == InitOps /\ [][NextIo]_vars

\* a program that only imports files, against one StdIo backend
NextImport == ImportStep \/ FrameStep \/ FrameReturn \/ FileEdit

SpecImport == InitOps /\ [][NextImport]_vars

\* the names of the system ops are looked up, nothing else runs
InitNames == InitOps /\ files = EmptyMap /\ show_image = FALSE

NextNames == Name \/ FromName \/ Lookup

SpecNames == InitNames /\ [][NextNames]_vars

\* command lines run one after the other in one directory
InitCommand ==
  InitCli /\ InitWatchOff /\ InitIo /\ files = EmptyMap /\ show_image = FALSE

SpecCli == InitCommand /\ [][NextCli]_vars

\* main's thread keeps running: between reading a line and the next prompt
\* nothing in the loop blocks
SpecCliLive == InitCommand /\ [][NextCli]_vars /\ WF_vars(ReplEval) /\ WF_vars(ReplPrompt)

(***************************************************************************)
(* Properties of the watcher (checked under Spec).                         *)
(***************************************************************************)

\* C1: at most one child spawned by the watcher is alive at any moment, and
\* when the run closure is about to spawn a child the slot is empty and the
\* child it held has been killed, so that no child is alive.
C1_AtMostOneChildAlive ==
  /\ Cardinality(Alive) <= 1
  /\ pc = "spawn" => (WATCH_CHILD = 0 /\ Alive = {})

\* a second child runs after a run trigger killed the first one
C1_Witness ==
  /\ Len(children) = 2
  /\ children[1].status = "killed"
  /\ children[2].status = "alive"
  /\ WATCH_CHILD = 2
  /\ exitCause = "none" /\ ~sigKilled

\* C2: no child is ever alive while the slot does not hold it, so that a
\* SIGINT delivered while a child is alive finds that child in the slot;
\* this includes the window between spawning the child and storing it.
C2_NoChildAliveOutsideSlot ==
  proc = "running" => \A c \in Alive : WATCH_CHILD = c

\* the step of the ctrl-C handler that handles one signal
HandlerStep ==
  /\ hpc = "locked"
  /\ \/ hpc' = "idle"
     \/ exitCause = "none" /\ exitCause' = "sigint"

\* C3: SIGINT handling is two-stage.  A signal handled while the slot holds
\* a child kills that child, empties the slot and leaves the process
\* running; a signal handled while the slot is empty exits the process with
\* status 0; and a signal handled after a signal that killed a child, with
\* no run closure entered in between, exits the process.
C3_TwoStageSigint ==
  [][HandlerStep =>
       /\ IF WATCH_CHILD # 0
            THEN /\ children'[WATCH_CHILD].status # "alive"
                 /\ WATCH_CHILD' = 0
                 /\ proc' = "running"
            ELSE /\ proc' = "exited"
                 /\ exitStatus' = 0
       /\ sigKilled => (proc' = "exited" /\ exitStatus' = 0)]_vars

\* the second of two signals exited the process after the first killed a child
C3_Witness ==
  /\ exitCause = "sigint" /\ exitStatus = 0
  /\ sigKilled
  /\ \E c \in 1..Len(children) : children[c].status = "killed"

\* one step of the retry loop of the run closure
RetryStep == pc \in {"format", "retry_sleep"} /\ pc' # pc

\* C4: one run trigger makes at most TRIES = 10 format attempts; attempt i
\* (0-based) failing with a Format error is followed by a sleep of
\* 10*(i+1) ms and, if i+1 < 10, by attempt i+1; any other outcome ends the
\* loop; after the tenth Format error the failure is reported, no child is
\* spawned and the watch keeps running.
C4_FormatRetry ==
  /\ [](pc \in {"format", "retry_sleep"} => i < TRIES)
  /\ [](pc = "retry_sleep" => sleepMs = 10 * (i + 1))
  /\ [][RetryStep =>
          IF pc = "format"
            THEN /\ pc' \in {"retry_sleep", "open_stdin", "spawn", "poll",
                              "wait_lock"}
                 /\ pc' = "retry_sleep" => i' = i
            ELSE IF i + 1 < TRIES
                   THEN pc' = "format" /\ i' = i + 1
                   ELSE /\ reported' = "failed_tries"
                        /\ pc' \in {"poll", "wait_lock"}
                        /\ children' = children
                        /\ WATCH_CHILD' = WATCH_CHILD
                        /\ proc' = "running"]_vars

\* the tenth attempt failed and the main thread sleeps 100 ms before it
\* gives up
C4_Witness ==
  /\ pc = "retry_sleep"
  /\ i = TRIES - 1
  /\ sleepMs = 100
  /\ proc = "running"
  /\ children = << >>

\* C5: no error of a run trigger or of a poll terminates the watch: after a
\* load error, a failure to open the --stdin-file or a failure to poll the
\* child, the watch loop is still running.
C5_ErrorsKeepWatchRunning ==
  /\ exitCause # "watch_err"
  /\ reported \in {"error", "watch_error"} => pc # "returned"

(***************************************************************************)
(* Properties of the system ops (checked under SpecIo and SpecImport).     *)
(***************************************************************************)

\* C6: every successful run of an IoOp on a stack of n >= args() values
\* declares a fixed number of outputs and leaves n - args() + outputs()
\* values on the stack.
C6_ArgsOutputsStackEffect ==
  (last.op # "" /\ last.ok /\ Len(last.pre) >= IoOp_args(last.op)) =>
     /\ IoOp_outputs(last.op) # << >>
     /\ Len(last.post) =
          Len(last.pre) - IoOp_args(last.op) + IoOp_outputs(last.op)[1]

\* the Pops and Pushes columns of the table of system ops
TablePops(op) ==
  CASE op \in {"Show", "Print", "Println", "ImShow"} -> 1
    [] op \in {"ScanLn", "Args", "Rand", "Now"} -> 0
    [] op \in {"Var", "FReadStr", "FReadBytes", "FLines", "FExists",
               "FIsFile", "FListDir", "ImRead"} -> 1
    [] op \in {"FWriteStr", "FWriteBytes", "ImWrite"} -> 2
TablePushes(op) ==
  CASE op \in {"Show", "Print", "Println", "ImShow"} -> 0
    [] op \in {"ScanLn", "Args", "Rand", "Now"} -> 1
    [] op \in {"Var", "FReadStr", "FReadBytes", "FLines", "FExists",
               "FIsFile", "FListDir", "ImRead"} -> 1
    [] op \in {"FWriteStr", "FWriteBytes", "ImWrite"} -> 0

\* C7: a successful run of any op but import removes exactly the table's
\* number of values from the top of the stack, leaves the values below
\* untouched and pushes exactly the table's number of values.
C7_TableStackEffect ==
  (last.ok /\ last.op \notin {"", "Import"}) =>
     LET kept == Len(last.pre) - TablePops(last.op) IN
     /\ kept >= 0
     /\ Len(last.post) = kept + TablePushes(last.op)
     /\ SubSeq(last.post, 1, kept) = SubSeq(last.pre, 1, kept)

\* fwritestr wrote a file: it took the path and the contents and pushed nothing
C7_Witness ==
  /\ last.ok /\ last.op = "FWriteStr"
  /\ last.pre = <<Str(PathB), Str(PathA)>>
  /\ last.post = << >>
  /\ files[PathA] = PathB

\* C8: import declares a variable number of outputs (outputs() is None) and
\* pushes the imported file's whole stack in the same bottom-to-top order,
\* so that the importer's new top is the imported stack's top.
C8_ImportVariableOutputs ==
  (last.op = "Import" /\ last.ok) =>
     /\ IoOp_outputs("Import") = << >>
     /\ last.post = Front(last.pre) \o imports[last.key]
     /\ imports[last.key] # << >> => Top(last.post) = Top(imports[last.key])

\* C9: an entry of the import cache, once inserted, is never changed or
\* removed, so that two successful imports of one path string return equal
\* value sequences even if the file changes in between.
C9_CacheEntriesNeverChange ==
  [][\A k \in DOMAIN imports :
       k \in DOMAIN imports' /\ imports'[k] = imports[k]]_vars

\* C10 as stated: a file is loaded and run at most once per path string
C10_LoadedAtMostOnce ==
  \A k \in DOMAIN loads : loads[k] <= 1

\* C10 as amended: once an import of a path string has succeeded, no later
\* import of that path loads or runs the file; an import served from the
\* cache pushes the cached stack, prints nothing and starts no run.
C10_CachedImportNeverReloads ==
  [][/\ \A k \in DOMAIN imports : Count(loads', k) = Count(loads, k)
     /\ (last' # last /\ last'.cached) =>
          /\ last'.key \in DOMAIN imports
          /\ last'.post = Front(last'.pre) \o imports[last'.key]
          /\ printed' = printed
          /\ loads' = loads
          /\ imports' = imports
          /\ Len(frames') = Len(frames)]_vars

\* a second import of "a" was served from the cache: the file was loaded
\* once and its println ran once
C10_Witness ==
  /\ last.op = "Import" /\ last.ok /\ last.cached
  /\ last.key = PathA
  /\ loads[PathA] = 1
  /\ printed = 2
  /\ last.post = <<Num(1), Num(10), Num(1), Num(10)>>

\* a step in which loading or running an imported file fails
FailedImport ==
  /\ last' # last /\ ~last'.ok
  /\ Depth > 1 \/ loads' # loads

\* the paths whose import fails in that step: the files being run and the
\* file that failed to load
FailedPaths ==
  {frames[d].name.data : d \in 2..Depth} \cup
  {k \in DOMAIN loads' : Count(loads', k) # Count(loads, k)}

\* the error is an Import error around the child's error, the path is popped
\* and nothing is pushed, no cache entry is inserted
FailedImportEffect ==
  /\ last'.op = "Import"
  /\ Len(last'.err) >= 2 /\ last'.err[1] = "Import"
  /\ last'.err[Len(last'.err)] \in {"Load", "Error"}
  /\ Len(frames') = 1
  /\ frames'[1].stack = Front(last'.pre)
  /\ imports' = imports

PathOps ==
  {"Var", "FReadStr", "FWriteStr", "FReadBytes", "FWriteBytes", "FLines",
   "FExists", "FListDir", "FIsFile", "Import", "ImRead", "ImWrite"}

\* C12: every op that takes a path or name operand returns an error when
\* that operand, the top of the stack, is not a character array, and then
\* calls no method of the backend.
C12_NonStringPathIsError ==
  (last.op \in PathOps /\ last.pre # << >> /\ Top(last.pre).ty # "char") =>
     /\ ~last.ok
     /\ last.calls = << >>

\* fwritestr with the number 1 as its path: an error, nothing is written
C12_Witness ==
  /\ last.op = "FWriteStr"
  /\ last.pre = <<Str(PathA), Num(1)>>
  /\ ~last.ok
  /\ last.calls = << >>
  /\ frames[1].stack = << >>
  /\ PathA \notin DOMAIN files

\* a rank-3 number or byte array whose last dimension is 1, 3 or 4
IsImageValue(v) ==
  /\ v.ty \in {"num", "byte"}
  /\ Len(v.shape) = 3
  /\ v.shape[3] \in {1, 3, 4}

\* C13: imwrite and imshow accept only a rank-3 number or byte array whose
\* last dimension is 1, 3 or 4: for any other image operand they return an
\* error and call neither write_file nor show_image.
C13_NonImageIsError ==
  /\ (last.op = "ImShow" /\ last.pre # << >>
        /\ ~IsImageValue(Top(last.pre))) =>
       ~last.ok /\ last.calls = << >>
  /\ (last.op = "ImWrite" /\ Len(last.pre) >= 2
        /\ ~IsImageValue(Top(Front(last.pre)))) =>
       ~last.ok /\ last.calls = << >>

\* imwrite of a [1,1,2] byte array to "a": an error, no file is written
C13_Witness ==
  /\ last.op = "ImWrite"
  /\ last.pre = <<Image112, Str(PathA)>>
  /\ ~last.ok
  /\ last.calls = << >>
  /\ PathA \notin DOMAIN files

\* the formats that store every pixel exactly
Lossless == {"Png", "Bmp", "Tiff"}

\* C14: image round trip: after imwrite has written a byte array a of shape
\* [H,W,C], C in {1,3,4}, to a file of a lossless format, imread of that
\* file succeeds and pushes an array equal to a.
C14_ImageRoundTrip ==
  (/\ last.op = "ImWrite" /\ last.ok
   /\ is_bytes(Top(Front(last.pre)))
   /\ IsImageValue(Top(Front(last.pre)))
   /\ OutputFormat(AfterLastDot(Top(last.pre).data)) \in Lossless) =>
     \A r \in RunImRead(<<Top(last.pre)>>, files, printed) :
        r.ok /\ r.stack = <<Top(Front(last.pre))>>

\* a run of fwritestr or fwritebytes with a string path on top of contents
WriteOpRan ==
  /\ last.op \in {"FWriteStr", "FWriteBytes"}
  /\ Len(last.pre) >= 2
  /\ Top(last.pre).ty = "char"

\* the op took the contents and called write_file with the path
WriteAccepted == last.calls = <<"write_file">>

\* the op returned an error without calling write_file
WriteRefused == ~last.ok /\ last.calls = << >>

\* C15 as stated: fwritestr and fwritebytes take the path from the top of
\* the stack and the contents from below it, and each accepts contents that
\* are a character array or a number or byte array; for any other contents
\* they return an error and do not call write_file
C15_WriteAcceptsCharOrNumeric ==
  WriteOpRan =>
    IF Top(Front(last.pre)).ty \in {"char", "num", "byte"}
      THEN WriteAccepted
      ELSE WriteRefused

\* C15 as amended: fwritestr and fwritebytes take the path from the top of
\* the stack and the contents from below it; fwritestr accepts only a
\* character array and fwritebytes only a number or byte array, and a
\* successful write leaves the contents' bytes in the file of that path; for
\* any other contents they return an error and do not call write_file.
C15_WriteAcceptsItsOwnType ==
  WriteOpRan =>
    LET path == Top(last.pre).data
        contents == Top(Front(last.pre)) IN
    IF \/ last.op = "FWriteStr" /\ contents.ty = "char"
       \/ last.op = "FWriteBytes" /\ contents.ty \in {"num", "byte"}
      THEN /\ WriteAccepted
           /\ last.ok => /\ Canon(path) \in DOMAIN files
                          /\ files[Canon(path)] = contents.data
                          /\ last.post = Front(Front(last.pre))
      ELSE WriteRefused

\* fwritebytes of the string "b" to "a" is refused and writes nothing
C15_Witness ==
  /\ last.op = "FWriteBytes"
  /\ last.pre = <<Str(PathB), Str(PathA)>>
  /\ ~last.ok
  /\ last.calls = << >>
  /\ PathA \notin DOMAIN files

\* C16: fexists and fisfile map every string path to a boolean: for any
\* character-array path, also one that does not exist, each pushes exactly
\* one boolean in place of the path and returns no error.
C16_PathToBoolean ==
  (/\ last.op \in {"FExists", "FIsFile"}
   /\ last.pre # << >>
   /\ Top(last.pre).ty = "char") =>
     /\ last.ok
     /\ \E b \in BOOLEAN : last.post = Append(Front(last.pre), Bool(b))

\* C17: whichever .ua file was modified, the file a watcher's child runs is
\* the working file resolved when the watch started.
C17_RerunsWorkingFile ==
  initial_path # "" =>
    \A k \in DOMAIN children : children[k].path = initial_path

(***************************************************************************)
(* Properties of the command line (checked under SpecCli).                 *)
(***************************************************************************)

\* the .ua entries directly in `.` and in `src/`
UaNearby == DOMAIN dir \cap {"src/main.ua", "main.ua", "a.ua", "src/b.ua"}

\* C18: working-file resolution, as `run` and `test` without a path use it,
\* yields src/main.ua if it exists, otherwise main.ua if it exists;
\* otherwise with n the number of .ua entries directly in `.` and `src/` it
\* yields NoFile when n = 0, the single file when n = 1 and MultipleFiles
\* when n > 1.
C18_WorkingFileResolution ==
  (cpc = "done" /\ app.cmd \in {"run", "test"} /\ app.path = "") =>
    IF "src/main.ua" \in DOMAIN dir
      THEN target = "src/main.ua" /\ cli_out \in {"ok", "report"}
    ELSE IF "main.ua" \in DOMAIN dir
      THEN target = "main.ua" /\ cli_out \in {"ok", "report"}
    ELSE CASE Cardinality(UaNearby) = 0 ->
                target = "" /\ cli_out = "NoFile"
           [] Cardinality(UaNearby) = 1 ->
                UaNearby = {target} /\ cli_out \in {"ok", "report"}
           [] OTHER ->
                target = "" /\ cli_out = "MultipleFiles"

\* `run` resolved the only nearby .ua file although lib/c.ua exists too
C18_Witness ==
  /\ cpc = "done" /\ app.cmd = "run" /\ app.path = ""
  /\ DOMAIN dir = {"a.ua", "lib/c.ua", "notes.txt"}
  /\ target = "a.ua"
  /\ cli_out = "ok"
  /\ exit_code = 0

\* C19: init refuses whenever a working file exists and then leaves the
\* file system unchanged; it writes main.ua only when working-file
\* resolution fails, and it never overwrites an existing main.ua or
\* src/main.ua.
C19_InitNeverOverwrites ==
  [][(cpc = "start" /\ app.cmd = "init" /\ cpc' = "done") =>
       /\ UaNearby # {} /\ (Cardinality(UaNearby) = 1
                               \/ UaNearby \cap {"src/main.ua", "main.ua"} # {})
            => dir' = dir /\ cli_out' = "file_exists"
       /\ dir' # dir =>
            /\ ~working_file_path(dir).ok
            /\ DOMAIN dir' = DOMAIN dir \cup {"main.ua"}
            /\ \A e \in DOMAIN dir : dir'[e] = dir[e]
       /\ \A e \in DOMAIN dir \cap {"src/main.ua", "main.ua"} :
            e \in DOMAIN dir' /\ dir'[e] = dir[e]]_vars

\* a first init wrote main.ua, a second init found it and refused
C19_Witness ==
  /\ cpc = "done" /\ app.cmd = "init" /\ ncmd = 2
  /\ cli_out = "file_exists"
  /\ target = "main.ua"
  /\ "main.ua" \in DOMAIN dir /\ dir["main.ua"] = "init"
  /\ "a.ua" \in DOMAIN dir /\ "src/b.ua" \in DOMAIN dir

\* C20: every subcommand exits with status 0 on success and with status 1
\* on error; `run` and `test` without a resolvable working file and an
\* invalid command line are errors.
C20_ExitStatus ==
  cpc = "done" =>
    /\ cli_out = "ok" => exit_code = 0
    /\ cli_out \in {"report", "usage"} => exit_code = 1
    /\ (app.cmd \in {"run", "test"}
          /\ cli_out \in {"NoFile", "MultipleFiles"}) => exit_code = 1

\* C21: run formats the file before executing it unless --no-format is
\* given, and test always formats first: execution starts only after the
\* format config was loaded and the file formatted, a failure of either
\* prevents execution and ends the command with status 1, and with
\* --no-format the formatter is never invoked.
C21_FormatBeforeExecute ==
  app.cmd \in {"run", "test"} =>
    /\ (cpc = "execute" \/ \E k \in DOMAIN steps : steps[k] = "execute") =>
         IF app.no_format
           THEN steps \in {<< >>, <<"execute">>}
           ELSE steps \in {<<"config_ok", "format_ok">>,
                           <<"config_ok", "format_ok", "execute">>}
    /\ (\E k \in DOMAIN steps : steps[k] \in {"config_err", "format_err"}) =>
         /\ steps \in {<<"config_err">>, <<"config_ok", "format_err">>}
         /\ cpc = "done" /\ exit_code = 1 /\ cli_out = "report"
    /\ app.no_format =>
         \A k \in DOMAIN steps : steps[k] = "execute"
    /\ (app.cmd = "test" /\ cpc = "done" /\ target # "") =>
         steps # << >> /\ steps[1] \in {"config_ok", "config_err"}

\* run without --no-format formatted a.ua and then executed it
C21_Witness ==
  /\ app.cmd = "run" /\ ~app.no_format /\ app.path = "a.ua"
  /\ cpc = "done" /\ cli_out = "ok" /\ exit_code = 0
  /\ steps = <<"config_ok", "format_ok", "execute">>
  /\ target = "a.ua"

\* C22: every child the watcher spawns is `run <path> --no-format
\* --no-update --mode all` for the path of the run trigger, so it never
\* formats and runs in mode All; its stdin is inherited unless --stdin-file
\* was given, and then the file is opened before each spawn and redirected
\* to the child.
C22_ChildCommandLine ==
  /\ [](\A k \in DOMAIN children :
          /\ children[k].no_format
          /\ children[k].mode = "all"
          /\ children[k].stdin = IF stdin_file THEN "file" ELSE "inherit")
  /\ [][/\ (pc' = "spawn" /\ pc # "spawn") =>
              pc = (IF stdin_file THEN "open_stdin" ELSE "format")
        /\ Len(children') > Len(children) =>
              /\ pc = "spawn"
              /\ Len(children') = Len(children) + 1
              /\ children'[Len(children')].path = runPath
              /\ children'[Len(children')].status = "alive"]_vars

\* two runs with --stdin-file each opened the file and spawned a child of
\* their own path with the file as stdin
C22_Witness ==
  /\ stdin_file
  /\ Len(children) = 2
  /\ children[1].stdin = "file" /\ children[2].stdin = "file"
  /\ children[1].path = "main.ua" /\ children[2].path = "lib.ua"
  /\ children[2].no_format /\ children[2].mode = "all"

\* C23: a backend wrapped as `&mut T` forwards every IoBackend method to T:
\* no method is left to the trait's default, and any op run against the
\* wrapper has the results and the effects on T it has when run against T.
C23_RefMutForwards ==
  /\ IoBackendMethods \subseteq RefMutMethods
  /\ Depth >= 2 =>
       \A op \in IoOp \ {"Import"} :
         RunOpVia(Depth - 1, op, Cur.stack, files, printed)
           = RunOp(op, Cur.stack, files, printed)
  /\ (last.op = "ImRead" /\ last.ok) => last.calls = <<"read_file">>

\* the imported file "a", run against `&mut StdIo`, printed through it
C23_Witness ==
  /\ Depth = 2 /\ Cur.name = Str(PathA)
  /\ last.op = "Println" /\ last.ok
  /\ last.calls = <<"print_str", "print_str">>
  /\ printed = 2
  /\ Cur.stack = << >>

\* C24: the REPL reports an error raised while formatting or executing a
\* line and then continues with the next prompt, keeping the same runtime
\* across lines; no error returned by a line ends the loop.
C24_ReplContinues ==
  /\ [][cpc = "repl_eval" =>
          /\ cpc' \in {"repl", "done"}
          /\ cpc' = "done" => cli_out' = "interrupted"
          /\ (cpc' = "repl" /\ ~ReplResult.ok) =>
                /\ repl'.result = "err"
                /\ repl'.reported = repl.reported + 1
          /\ (cpc' = "repl" /\ ReplResult.ok) =>
                /\ repl'.result = "ok"
                /\ repl'.reported = repl.reported]_vars
  /\ [][(cpc \in {"repl", "repl_read", "repl_eval"}) =>
          /\ repl'.rt = repl.rt
          /\ \E t \in {<< >>, <<repl.code>>, <<repl'.code>>} :
                repl'.loaded = repl.loaded \o t]_vars
  /\ [](cpc = "done" /\ app.cmd = "repl"
           => cli_out \in {"interrupted", "panic", "report"}
              /\ (cli_out = "report" => repl.rt # ncmd))
  /\ (cpc = "repl_eval" /\ ~ReplResult.ok)
       ~> (\/ cpc = "repl_read" /\ repl.result = "err"
           \/ cpc = "done" /\ cli_out = "interrupted")

\* a line that failed was reported, and the next line was loaded into the
\* runtime that had been given the failed one
C24_Witness ==
  /\ cpc = "repl_read" /\ repl.n = 2
  /\ repl.reported = 1 /\ repl.result = "ok"
  /\ repl.loaded = <<"+", "1">>

\* the run closure is between its take and its spawn
RunBeforeSpawn == pc \in {"format", "retry_sleep", "open_stdin", "spawn"}

\* C25: every run trigger kills and removes the child held in the slot
\* before its first format attempt, whatever the trigger's outcome: when the
\* trigger ends without spawning (empty input, a non-Format error, or TRIES
\* failed attempts) the slot is empty and no watcher-spawned child is alive.
C25_RunKillsFirst ==
  /\ [](RunBeforeSpawn => WATCH_CHILD = 0 /\ Alive = {})
  /\ [][/\ (pc' = "format" /\ pc # "format") =>
              pc \in {"run_take", "retry_sleep"}
        /\ (pc = "run_take" /\ pc' # pc) =>
              /\ pc' = "format" /\ i' = 0
              /\ WATCH_CHILD' = 0
              /\ WATCH_CHILD # 0 => children'[WATCH_CHILD].status # "alive"
        /\ (pc \in {"format", "retry_sleep"} /\ pc' = RetPc(ret)) =>
              /\ WATCH_CHILD' = 0 /\ Alive' = {}
              /\ children' = children]_vars

\* a change-triggered run killed the child of the initial run and then
\* ended on a load error
C25_Witness ==
  /\ proc = "running" /\ pc = "wait_lock" /\ ret = "loop"
  /\ reported = "error"
  /\ Len(children) = 1 /\ children[1].status = "killed"
  /\ WATCH_CHILD = 0

\* the path string the current frame is about to import, << >> if none
ImportingKey ==
  IF /\ Cur.ip <= Len(Cur.prog)
     /\ Cur.prog[Cur.ip] = Io("Import")
     /\ Cur.stack # << >>
     /\ ~NotString(Top(Cur.stack))
    THEN Top(Cur.stack).data
    ELSE << >>

Running == {frames[d].name.data : d \in 2..Depth}

\* the current frame is about to import a path whose run is in progress
CyclicImport == Depth >= 2 /\ ImportingKey \in Running

ExitedInSlot == WATCH_CHILD # 0 /\ children[WATCH_CHILD].status = "exited"

\* C28: when the child exits on its own, the watcher loop observes the exit
\* at a later poll (try_wait) and empties the slot without any kill, so the
\* slot eventually becomes empty; with the slot empty a SIGINT exits the
\* watcher instead of reporting an interrupted program.
C28_ExitObserved ==
  /\ ExitedInSlot ~> (WATCH_CHILD = 0 \/ proc = "exited")
  /\ [][(pc = "wait" /\ ExitedInSlot /\ pc' = "poll") =>
          /\ WATCH_CHILD' = 0
          /\ children' = children
          /\ reported' = reported]_vars
  /\ [][(hpc = "locked" /\ WATCH_CHILD = 0) =>
          /\ hpc' = "locked" /\ WATCH_CHILD' = 0
          /\ reported' = "interrupted" => reported = "interrupted"
          /\ exitCause' # exitCause =>
                /\ proc' = "exited" /\ children' = children
                /\ exitCause' = "sigint" => exitStatus' = 0]_vars
  /\ (hpc = "locked" /\ WATCH_CHILD = 0) ~> (proc = "exited")

\* the child exited on its own, the loop emptied the slot, and a SIGINT then
\* ended the watcher with nothing reported as interrupted
C28_Witness ==
  /\ proc = "exited" /\ exitCause = "sigint" /\ exitStatus = 0
  /\ Len(children) = 1 /\ children[1].status = "exited"
  /\ WATCH_CHILD = 0
  /\ reported = "none"
  /\ pc = "poll"

\* where each thread stands while it holds the guard, and where it waits
\* for the lock
MainHolds == pc \in {"run_take", "store", "wait"}
MainWaits == pc \in {"run_lock", "store_lock", "wait_lock"}

\* C29: the SIGINT handler, the run closure and the watcher loop never
\* deadlock on the WATCH_CHILD lock: each acquires the lock without already
\* holding it, does one non-blocking step on the child while holding it and
\* releases it, so under every interleaving each of them eventually
\* acquires the lock.
C29_NoLockDeadlock ==
  /\ [](proc = "running" =>
          /\ lock = "main" <=> MainHolds
          /\ lock = "handler" <=> hpc = "locked"
          /\ MainHolds => ENABLED (RunTake \/ Store \/ Wait)
          /\ hpc = "locked" => ENABLED HandlerRun)
  /\ [][/\ (lock' # lock /\ lock' # "free") => lock = "free"
        /\ (MainHolds /\ pc' # pc) => ~MainHolds' /\ lock' # "main"
        /\ (lock = "main" /\ proc' = "running") => hpc' = hpc \/ hpc' = "signalled"
        /\ (lock = "handler" /\ proc' = "running" /\ hpc = "locked") =>
              pc' = pc \/ ~MainHolds']_vars
  /\ (pc = "run_lock") ~> (pc = "run_take" \/ proc = "exited")
  /\ (pc = "store_lock") ~> (pc = "store" \/ proc = "exited")
  /\ (pc = "wait_lock") ~> (pc = "wait" \/ proc = "exited")
  /\ (hpc = "signalled") ~> (hpc = "locked" \/ proc = "exited")

\* the handler waits for the lock while the loop holds it to poll the child
\* of the second run
C29_Witness ==
  /\ proc = "running"
  /\ lock = "main" /\ pc = "wait" /\ hpc = "signalled"
  /\ WATCH_CHILD = 2 /\ children[2].status = "alive"

\* a poll: the loop's sleep and try_iter
PollStep == pc = "poll" /\ pc' # pc

\* C30 as stated: a poll that finds events starts a run exactly when more
\* than 100 ms have passed since the previous change-triggered run, so a
\* poll before any change-triggered run starts one
C30_DebounceSinceChangeRun ==
  [][(PollStep /\ events # << >>) =>
       (pc' = "run_lock" <=> (ret = "init" \/ elapsed' = "long"))]_vars

\* C30 as amended: each poll starts at most one run, for the last modified
\* .ua path of the polled batch, exactly when the batch is not empty and
\* more than 100 ms have passed since the latest run of either kind returned
\* (since the start of the loop when there was none); the polled events are
\* consumed in every case, and a poll that finds no event starts no run.
C30_DebouncedPoll ==
  [][/\ PollStep =>
          /\ events' = << >>
          /\ pc' \in {"run_lock", "wait_lock"}
          /\ pc' = "run_lock" <=> (events # << >> /\ elapsed' = "long")
          /\ pc' = "run_lock" =>
                /\ runPath' = events[Len(events)]
                /\ runs' = runs + 1
                /\ ret' = "loop"
          /\ pc' = "wait_lock" => runs' = runs /\ runPath' = runPath
     /\ (pc' = "run_lock" /\ pc # "run_lock") => pc \in {"start", "poll"}
     /\ runs' # runs => runs' = runs + 1 /\ pc' = "run_lock"
     /\ (elapsed' = "zero" /\ elapsed # "zero") =>
          pc' \in {"poll", "wait_lock", "returned"}]_vars

\* after the initial run of main.ua, a poll found lib.ua last in its batch
\* more than 100 ms after that run and started the second run for it
C30_Witness ==
  /\ initial_path = "main.ua"
  /\ pc = "run_lock" /\ ret = "loop"
  /\ runs = 2 /\ runPath = "lib.ua"
  /\ events = << >> /\ elapsed = "long"
  /\ Len(children) = 1 /\ children[1].path = "main.ua"

\* the strings that are the name of an op
OpNames == {IoOp_name(op) : op \in IoOp}

\* C31: IoOp names round-trip: from_name(op.name()) = Some(op) for every op,
\* the names of distinct ops are distinct, and from_name returns None for
\* every string that is not the name of an op.
C31_NamesRoundTrip ==
  /\ \A a, b \in IoOp : a # b => IoOp_name(a) # IoOp_name(b)
  /\ (named.op # "" /\ named.called) => named.res = <<named.op>>
  /\ (named.called /\ named.s \notin OpNames) => named.res = << >>
  /\ (named.called /\ named.res # << >>) =>
       /\ named.res[1] \in IoOp
       /\ IoOp_name(named.res[1]) = named.s

\* the name of FWriteBytes was looked up and gave FWriteBytes back
C31_Witness ==
  /\ named.op = "FWriteBytes" /\ named.s = "fwritebytes"
  /\ named.called /\ named.res = <<"FWriteBytes">>

====
